---- MODULE Spec2Model ----
(***************************************************************************)
(* CreativeFlow review room: the annotation and viewport coordinate engine *)
(* (ReviewRoom, AnnotationLayer, CommentThread, App) as a state machine.   *)
(* Every DOM event is one action: the handlers it reaches run in bubbling  *)
(* order, and React re-renders before the next event is delivered.         *)
(* JavaScript numbers are modelled as exact rationals <<num, den>>.        *)
(***************************************************************************)
EXTENDS Integers, Sequences, FiniteSets, TLC

\* ------------------------------------------------------------------ bounds

\* Date.now() values handed out in one session (ids of versions, comments, replies).
MaxClock == 1
\* Points a pen stroke may accumulate before further moves are not explored.
MaxPath == 2
\* Wheel and zoom-button steps explored in one session.
MaxViewOps == 2
\* Pan-drag moves explored in one session.
MaxPanMoves == 1
\* Mouse events of one press on the overlay (the mousedown included) before
\* further moves of that press are not explored.
MaxLog == 3
\* Suggestions requested for one comment before further requests for it are
\* not explored.
MaxRequests == 2

\* --------------------------------------------------------------- rationals

Null == <<>>
\* A null id (activeCommentId, draggedCommentId, compareVersionId).
NoId == "null"

Abs(n) == IF n < 0 THEN -n ELSE n

RECURSIVE GCD(_, _)
GCD(a, b) == IF b = 0 THEN a ELSE GCD(b, a % b)

\* The rational n/d (d # 0) in lowest terms with a positive denominator.
Rat(n, d) ==
    LET s == IF d < 0 THEN -1 ELSE 1
        g == GCD(Abs(n), Abs(d))
    IN  IF n < 0
          THEN <<-(s * (Abs(n) \div g)), Abs(d) \div g>>
          ELSE <<s * (Abs(n) \div g), Abs(d) \div g>>

Num(n) == <<n, 1>>
RAdd(a, b) == Rat(a[1] * b[2] + b[1] * a[2], a[2] * b[2])
RSub(a, b) == Rat(a[1] * b[2] - b[1] * a[2], a[2] * b[2])
RMul(a, b) == Rat(a[1] * b[1], a[2] * b[2])
RDiv(a, b) == Rat(a[1] * b[2], a[2] * b[1])
RLt(a, b) == a[1] * b[2] < b[1] * a[2]
RLe(a, b) == a[1] * b[2] <= b[1] * a[2]
RMin(a, b) == IF RLt(b, a) THEN b ELSE a
RMax(a, b) == IF RLt(a, b) THEN b ELSE a
RAbs(a) == <<Abs(a[1]), a[2]>>

\* ------------------------------------------------------------ mock data

\* constants.ts MOCK_USERS: the roster the "Demo: Switch User" menu offers.
MOCK_USERS ==
    { [id |-> "u1", role |-> "CREATOR"],
      [id |-> "u2", role |-> "APPROVER"],
      [id |-> "u3", role |-> "APPROVER"],
      [id |-> "u4", role |-> "OBSERVER"],
      [id |-> "u5", role |-> "SUPER_ADMIN"] }

UserRole == {"SUPER_ADMIN", "CREATOR", "APPROVER", "OBSERVER"}
AssetStatus == {"PENDING", "IN_PROGRESS", "CHANGES_REQUESTED", "APPROVED"}
DrawingTools == {"pointer", "pen", "box", "hand"}

\* types.ts Drawing: type 'pen' carries points, type 'box' carries rect.
NoDrawing == [type |-> "none", points |-> <<>>, rect |-> Null, color |-> ""]
PenDrawing(pts, col) == [type |-> "pen", points |-> pts, rect |-> Null, color |-> col]
BoxDrawing(r, col) == [type |-> "box", points |-> <<>>, rect |-> r, color |-> col]

Pt(a, b) == [x |-> a, y |-> b]
Rect(a, b, c, d) == [x |-> a, y |-> b, w |-> c, h |-> d]

\* constants.ts MOCK_PROJECTS, the three assets a review room can be opened on.
MOCK_ASSETS ==
    { [id |-> "a1", type |-> "IMAGE", status |-> "CHANGES_REQUESTED",
       versions |-> <<
         [id |-> "v2", versionNumber |-> 2, url |-> "picsum/id/28", createdAt |-> 0,
          comments |-> <<
            [id |-> "c1", userId |-> "u2", text |-> "contrast", resolved |-> FALSE,
             x |-> Num(45), y |-> Num(30),
             drawing |-> BoxDrawing(Rect(Num(40), Num(25), Num(10), Num(10)), "#ef4444"),
             replies |-> << [id |-> "c1_r1", userId |-> "u1", text |-> "sure",
                             resolved |-> FALSE, isInternal |-> FALSE] >>,
             isInternal |-> FALSE] >>],
         [id |-> "v1", versionNumber |-> 1, url |-> "picsum/id/28?grayscale",
          createdAt |-> 0, comments |-> <<>>] >>],
      [id |-> "a2", type |-> "VIDEO", status |-> "PENDING",
       versions |-> <<
         [id |-> "v1_video", versionNumber |-> 1, url |-> "ForBiggerJoyrides.mp4",
          createdAt |-> 0, comments |-> <<>>] >>],
      [id |-> "a3", type |-> "DOCUMENT", status |-> "APPROVED",
       versions |-> <<
         [id |-> "v1_doc", versionNumber |-> 1, url |-> "picsum/id/1",
          createdAt |-> 0, comments |-> <<>>] >>] }

\* ------------------------------------------------------------- geometry

\* The viewport element's client rectangle and the content box's layout
\* rectangle inside it before the pan/zoom transform (pixels).
ViewportRect == [left |-> 0, top |-> 0, width |-> 400, height |-> 200]
ContainerLayout == [left |-> 100, top |-> 0, width |-> 200, height |-> 200]

\* Pointer positions (clientX, clientY) the environment delivers.  Away is a
\* position outside the viewport element: over the header, toolbar or sidebar.
Away == Pt(-1, -1)
LayerPositions == {Pt(120, 20), Pt(121, 20), Pt(122, 20), Pt(126, 24),
                   Pt(140, 40), Pt(220, 120)}
BackgroundPositions == {Pt(50, 20)}
Positions == LayerPositions \cup BackgroundPositions \cup {Away}

MouseButtons == {0, 1}
WheelDeltas == {-2500, -250, 500, 1000}
ReplyTexts == {"ok"}
SuggestionTexts == {"s1", "s2"}

\* ---------------------------------------------------------------- state

VARIABLES
    \* App
    currentUser,
    \* ReviewRoom
    asset, versions, currentAssetStatus, activeVersionId, compareVersionId,
    isCompareMode, activeCommentId, isUploadModalOpen,
    drawingTool, previousToolRef,
    zoom, pan, isPanningRef, lastMousePosRef,
    \* AnnotationLayer
    boundsRef, isDrawing, currentPath, currentStart, currentRect,
    draggedCommentId, dragPosition,
    \* CommentThread: the internal toggles, the reply drafts and the AI
    \* suggestions by comment id, and the suggestReply calls awaiting their
    \* result
    replyInternal, replyDrafts, aiSuggestions, suggestRequests,
    \* history: by comment id, how many suggestions were requested, the result
    \* of the most recently issued request, and what the user's last edit or
    \* send since that request left in the draft
    suggestLog,
    \* environment: pointer position, the element under the pointer at the last
    \* mouse event, Date.now(), explored zoom steps and pan moves
    ptr, hover, now, viewOps, panMoves,
    \* video playback (the player's isPlaying prop)
    isVideoPlaying,
    \* keyboard: the Space press being held, with the tool that was active
    \* when it went down and whether a tool input was given since
    spaceOverride,
    \* history: the normalized points of the mouse events the overlay received
    \* in the press in progress, the mousedown first (empty when no press on
    \* the overlay is in progress)
    pressLog,
    \* whether the presses are recorded in pressLog (fixed by the initial state)
    recordPress,
    \* ComparisonView (its state exists while the view is mounted): the view
    \* mode, the divider position, the isDragging ref, and whether its window
    \* mousemove / mouseup listeners are registered
    mode, wipePos, isDragging, windowListeners

appVars == <<currentUser>>
roomVars == <<asset, versions, currentAssetStatus, activeVersionId, compareVersionId,
              isCompareMode, activeCommentId, isUploadModalOpen>>
toolVars == <<drawingTool, previousToolRef>>
viewVars == <<zoom, pan, isPanningRef, lastMousePosRef>>
layerVars == <<boundsRef, isDrawing, currentPath, currentStart, currentRect,
               draggedCommentId, dragPosition>>
threadVars == <<replyInternal, replyDrafts, aiSuggestions, suggestRequests, suggestLog>>
envVars == <<ptr, hover, now, viewOps, panMoves>>
videoVars == <<isVideoPlaying>>
keyVars == <<spaceOverride>>
gestureVars == <<pressLog, recordPress>>
compareViewVars == <<mode, wipePos, isDragging, windowListeners>>
vars == <<appVars, roomVars, toolVars, viewVars, layerVars, threadVars, envVars,
         videoVars, keyVars, gestureVars, compareViewVars>>

\* ------------------------------------------------------ derived values

SeqToSet(s) == {s[i] : i \in 1..Len(s)}

RECURSIVE SelectSeq2(_, _)
\* Array.prototype.filter with the predicate given as the set of kept elements.
SelectSeq2(s, keep) ==
    IF s = <<>> THEN <<>>
    ELSE IF Head(s) \in keep THEN <<Head(s)>> \o SelectSeq2(Tail(s), keep)
    ELSE SelectSeq2(Tail(s), keep)

\* versions.find(v => v.id === id): the first match, or Null.
FindVersion(vs, id) ==
    IF \E i \in 1..Len(vs) : vs[i].id = id
      THEN vs[CHOOSE i \in 1..Len(vs) :
                 vs[i].id = id /\ \A j \in 1..(i - 1) : vs[j].id # id]
      ELSE Null

activeVersion ==
    IF FindVersion(versions, activeVersionId) # Null
      THEN FindVersion(versions, activeVersionId)
      ELSE versions[1]

compareVersion ==
    IF compareVersionId = NoId THEN Null ELSE FindVersion(versions, compareVersionId)

openTasksCount == Cardinality({i \in 1..Len(activeVersion.comments) :
                                  ~activeVersion.comments[i].resolved})

isDecisionMaker == currentUser.role = "APPROVER" \/ currentUser.role = "SUPER_ADMIN"

\* Faulty variant of canApprove: the open-task condition is dropped.
canApproveIgnoringTasks == isDecisionMaker

canApprove == isDecisionMaker /\ (openTasksCount = 0 \/ currentUser.role = "SUPER_ADMIN")
canUpload == currentUser.role = "CREATOR" \/ currentUser.role = "SUPER_ADMIN"

\* Faulty variant of visibleComments: no role filter.
visibleCommentsUnfiltered == activeVersion.comments

visibleComments ==
    SelectSeq2(activeVersion.comments,
               {c \in SeqToSet(activeVersion.comments) :
                   ~(currentUser.role = "APPROVER" /\ c.isInternal)})

\* The single view (and with it the AnnotationLayer) is rendered unless the
\* comparison view is.
LayerMounted == ~(isCompareMode /\ compareVersion # Null)

\* No Space press is being held.
NoOverride == [held |-> FALSE, before |-> "pointer", clean |-> FALSE]
\* A Space press that went down with tool t active.
Override(t) == [held |-> TRUE, before |-> t, clean |-> TRUE]

\* ---------------------------------------------------------------- Init

LayerInit ==
    /\ boundsRef = Null
    /\ isDrawing = FALSE
    /\ currentPath = <<>>
    /\ currentStart = Null
    /\ currentRect = Null
    /\ draggedCommentId = NoId
    /\ dragPosition = Null

\* ComparisonView before it is mounted and after it is unmounted: no state,
\* no listeners (the fields hold their initial values).
CompareViewUnmounted ==
    /\ mode = "side-by-side"
    /\ wipePos = Num(50)
    /\ isDragging = FALSE
    /\ windowListeners = FALSE

\* Everything but the drawing tool: useState initial values of App, ReviewRoom
\* and its children on mount.
\* useState<Record<string, string>>({}): a record with no keys.
EmptyRecord == [k \in {} |-> ""]

MountInit ==
    /\ currentUser = CHOOSE u \in MOCK_USERS : u.id = "u1"
    /\ asset \in MOCK_ASSETS
    /\ versions = asset.versions
    /\ currentAssetStatus = asset.status
    /\ activeVersionId = asset.versions[1].id
    /\ compareVersionId = NoId
    /\ isCompareMode = FALSE
    /\ activeCommentId = NoId
    /\ isUploadModalOpen = FALSE
    /\ previousToolRef = "pointer"
    /\ zoom = Num(1)
    /\ pan = Pt(Num(0), Num(0))
    /\ isPanningRef = FALSE
    /\ lastMousePosRef = Pt(0, 0)
    /\ LayerInit
    /\ replyInternal = {}
    /\ replyDrafts = EmptyRecord
    /\ aiSuggestions = EmptyRecord
    /\ suggestRequests = {}
    /\ suggestLog = EmptyRecord
    /\ ptr = Away
    /\ hover = "away"
    /\ now = 1
    /\ viewOps = 0
    /\ panMoves = 0
    /\ isVideoPlaying = FALSE
    /\ spaceOverride = NoOverride
    /\ pressLog = <<>>
    /\ CompareViewUnmounted

Init == MountInit /\ drawingTool = "pointer" /\ recordPress = FALSE

\* The same state, with the presses on the overlay recorded.
InitRecorded == MountInit /\ drawingTool = "pointer" /\ recordPress = TRUE

\* The AnnotationLayer under any value of its drawingTool prop (the room's
\* toolbar and shortcuts never hand it 'box').
InitAnyTool == MountInit /\ drawingTool \in DrawingTools /\ recordPress = FALSE

\* ------------------------------------------------- screen geometry

\* getBoundingClientRect() of the content box under
\* transform: translate(pan) scale(zoom) with transform-origin 0 0.
ContainerRect(z, p) ==
    [left |-> RAdd(Num(ViewportRect.left), RAdd(p.x, RMul(z, Num(ContainerLayout.left)))),
     top |-> RAdd(Num(ViewportRect.top), RAdd(p.y, RMul(z, Num(ContainerLayout.top)))),
     width |-> RMul(z, Num(ContainerLayout.width)),
     height |-> RMul(z, Num(ContainerLayout.height))]

InViewport(q) ==
    /\ ViewportRect.left <= q.x /\ q.x < ViewportRect.left + ViewportRect.width
    /\ ViewportRect.top <= q.y /\ q.y < ViewportRect.top + ViewportRect.height

InRect(q, r) ==
    /\ RLe(r.left, Num(q.x)) /\ RLt(Num(q.x), RAdd(r.left, r.width))
    /\ RLe(r.top, Num(q.y)) /\ RLt(Num(q.y), RAdd(r.top, r.height))

\* The element a mouse event at q is dispatched to: the annotation overlay
\* (pointer-events-auto content box, clipped by the viewport's overflow-hidden),
\* the viewport background, or something outside the viewport.
HitTest(q) ==
    IF ~InViewport(q) THEN "away"
    ELSE IF LayerMounted /\ InRect(q, ContainerRect(zoom, pan)) THEN "layer"
    ELSE "viewport"

\* ------------------------------------------------- AnnotationLayer

toolColor == "#ef4444"

Layer ==
    [boundsRef |-> boundsRef, isDrawing |-> isDrawing, currentPath |-> currentPath,
     currentStart |-> currentStart, currentRect |-> currentRect,
     draggedCommentId |-> draggedCommentId, dragPosition |-> dragPosition]

FreshLayer ==
    [boundsRef |-> Null, isDrawing |-> FALSE, currentPath |-> <<>>,
     currentStart |-> Null, currentRect |-> Null,
     draggedCommentId |-> NoId, dragPosition |-> Null]

SetLayer(L) ==
    /\ boundsRef' = L.boundsRef
    /\ isDrawing' = L.isDrawing
    /\ currentPath' = L.currentPath
    /\ currentStart' = L.currentStart
    /\ currentRect' = L.currentRect
    /\ draggedCommentId' = L.draggedCommentId
    /\ dragPosition' = L.dragPosition

\* The isCompareMode prop ReviewRoom passes to the layer is the literal false.
layerIsCompareMode == FALSE

\* getPoint: normalized (0-100) point from the cached bounds, or from a fresh
\* measurement when no bounds are cached.
getPoint(L, e) ==
    LET rect == IF L.boundsRef # Null THEN L.boundsRef ELSE ContainerRect(zoom, pan)
    IN  Pt(RMul(RDiv(RSub(Num(e.x), rect.left), rect.width), Num(100)),
           RMul(RDiv(RSub(Num(e.y), rect.top), rect.height), Num(100)))

handleMouseDown(L, e) ==
    IF drawingTool = "hand" THEN L
    ELSE
      LET L1 == [L EXCEPT !.boundsRef = ContainerRect(zoom, pan)]
          point == getPoint(L1, e)
      IN  IF layerIsCompareMode \/ L1.draggedCommentId # NoId THEN L1
          ELSE IF drawingTool # "pointer" THEN
            IF drawingTool = "pen"
              THEN [L1 EXCEPT !.isDrawing = TRUE, !.currentPath = <<point>>]
              ELSE IF drawingTool = "box"
                THEN [L1 EXCEPT !.isDrawing = TRUE, !.currentStart = point,
                                !.currentRect = Rect(point.x, point.y, Num(0), Num(0))]
                ELSE [L1 EXCEPT !.isDrawing = TRUE]
          ELSE [L1 EXCEPT !.isDrawing = TRUE]

\* handlePinMouseDown: the new layer state and the id handed to onSelectComment.
handlePinMouseDown(L, id, startX, startY) ==
    IF drawingTool = "pointer" /\ ~layerIsCompareMode
      THEN [layer |-> [L EXCEPT !.boundsRef = ContainerRect(zoom, pan),
                                !.draggedCommentId = id,
                                !.dragPosition = Pt(startX, startY)],
            select |-> id]
      ELSE [layer |-> L, select |-> NoId]

Clamp100(v) == RMax(Num(0), RMin(Num(100), v))

\* Faulty variant of dragRect: the corner is always the anchor.
dragRectFromAnchor(start, point) ==
    LET w == RSub(point.x, start.x)
        h == RSub(point.y, start.y)
    IN  Rect(start.x, start.y, RAbs(w), RAbs(h))

\* handleMouseMove, box tool: the rectangle between the anchor and the point.
dragRect(start, point) ==
    LET w == RSub(point.x, start.x)
        h == RSub(point.y, start.y)
    IN  Rect(IF RLt(Num(0), w) THEN start.x ELSE point.x,
             IF RLt(Num(0), h) THEN start.y ELSE point.y,
             RAbs(w), RAbs(h))

handleMouseMove(L, e) ==
    LET point == getPoint(L, e)
    IN  IF L.draggedCommentId # NoId
          THEN [L EXCEPT !.dragPosition = Pt(Clamp100(point.x), Clamp100(point.y))]
        ELSE IF ~L.isDrawing THEN L
        ELSE IF drawingTool = "pen"
          THEN [L EXCEPT !.currentPath = Append(L.currentPath, point)]
        ELSE IF drawingTool = "box" /\ L.currentStart # Null
          THEN [L EXCEPT !.currentRect = dragRect(L.currentStart, point)]
        ELSE L

NoCall == [kind |-> "none", id |-> NoId, x |-> Null, y |-> Null, drawing |-> NoDrawing]
AddCall(a, b, d) == [kind |-> "add", id |-> NoId, x |-> a, y |-> b, drawing |-> d]
MoveCall(i, a, b) == [kind |-> "move", id |-> i, x |-> a, y |-> b, drawing |-> NoDrawing]

\* Faulty variant of FinishDrawing: a pen stroke of a single point is committed.
FinishDrawingAnyPath(L, e) ==
    IF drawingTool = "pointer" /\ ~layerIsCompareMode
      THEN AddCall(getPoint(L, e).x, getPoint(L, e).y, NoDrawing)
    ELSE IF drawingTool = "pen" /\ Len(L.currentPath) > 0
      THEN AddCall(L.currentPath[1].x, L.currentPath[1].y,
                   PenDrawing(L.currentPath, toolColor))
    ELSE IF /\ drawingTool = "box"
            /\ L.currentRect # Null
            /\ (RLt(Num(1), L.currentRect.w) \/ RLt(Num(1), L.currentRect.h))
      THEN AddCall(RAdd(L.currentRect.x, L.currentRect.w), L.currentRect.y,
                   BoxDrawing(L.currentRect, toolColor))
    ELSE NoCall

\* The commit decision of handleMouseUp for a finished drawing press-state.
FinishDrawing(L, e) ==
    IF drawingTool = "pointer" /\ ~layerIsCompareMode
      THEN AddCall(getPoint(L, e).x, getPoint(L, e).y, NoDrawing)
    ELSE IF drawingTool = "pen" /\ Len(L.currentPath) > 1
      THEN AddCall(L.currentPath[1].x, L.currentPath[1].y,
                   PenDrawing(L.currentPath, toolColor))
    ELSE IF /\ drawingTool = "box"
            /\ L.currentRect # Null
            /\ (RLt(Num(1), L.currentRect.w) \/ RLt(Num(1), L.currentRect.h))
      THEN AddCall(RAdd(L.currentRect.x, L.currentRect.w), L.currentRect.y,
                   BoxDrawing(L.currentRect, toolColor))
    ELSE NoCall

\* handleMouseUp: the new layer state and the callback it invokes
\* (onUpdateCommentPosition, onAddComment or none).
handleMouseUp(L, e) ==
    IF L.draggedCommentId # NoId
      THEN [layer |-> [L EXCEPT !.draggedCommentId = NoId, !.dragPosition = Null,
                                !.boundsRef = Null],
            call |-> IF L.dragPosition # Null
                       THEN MoveCall(L.draggedCommentId, L.dragPosition.x, L.dragPosition.y)
                       ELSE NoCall]
    ELSE IF ~L.isDrawing THEN [layer |-> L, call |-> NoCall]
    ELSE [layer |-> [L EXCEPT !.isDrawing = FALSE, !.currentPath = <<>>,
                              !.currentRect = Null, !.currentStart = Null,
                              !.boundsRef = Null],
          call |-> FinishDrawing(L, e)]

\* Faulty variant of handleMouseLeave: the cached rectangle is kept.
handleMouseLeaveKeepsBounds(L) ==
    [L EXCEPT !.isDrawing = FALSE, !.draggedCommentId = NoId, !.dragPosition = Null]

\* Faulty variant of handleMouseLeave: the pin drag survives the leave.
handleMouseLeaveKeepsDrag(L) == [L EXCEPT !.isDrawing = FALSE, !.boundsRef = Null]

handleMouseLeave(L) ==
    [L EXCEPT !.isDrawing = FALSE, !.draggedCommentId = NoId,
              !.dragPosition = Null, !.boundsRef = Null]

\* ------------------------------------------------------ ReviewRoom

\* Array.prototype.map with the callback given as a function on the elements.
MapSeq(cs, f) == [i \in 1..Len(cs) |-> f[cs[i]]]

\* prev.map(v => v.id === id ? nv : v)
ReplaceVersion(vs, id, nv) ==
    LET swap(v) == IF v.id = id THEN nv ELSE v
    IN  MapSeq(vs, [el \in SeqToSet(vs) |-> swap(el)])

\* Faulty variant of addCommentRefused: the role is not looked at.
addCommentRefusedInCompareOnly == isCompareMode

\* Whether handleAddComment returns before creating anything.
addCommentRefused == isCompareMode \/ currentUser.role = "OBSERVER"

NewComment(x, y, drawing) ==
    [id |-> "c_" \o ToString(now), userId |-> currentUser.id, text |-> "",
     resolved |-> FALSE, x |-> x, y |-> y, drawing |-> drawing,
     replies |-> <<>>, isInternal |-> FALSE]

\* Faulty variant of addCommentVersions: the comment is put on every version.
addCommentToEveryVersion(x, y, drawing) ==
    LET put(v) == [v EXCEPT !.comments = <<NewComment(x, y, drawing)>> \o v.comments]
    IN  MapSeq(versions, [el \in SeqToSet(versions) |-> put(el)])

\* Faulty variant of addCommentVersions: the comment is put at the tail.
addCommentAtTail(x, y, drawing) ==
    LET updatedVersion ==
          [activeVersion EXCEPT
             !.comments = Append(activeVersion.comments, NewComment(x, y, drawing))]
    IN  ReplaceVersion(versions, activeVersion.id, updatedVersion)

\* handleAddComment: the versions list it stores.
addCommentVersions(x, y, drawing) ==
    LET updatedVersion ==
          [activeVersion EXCEPT
             !.comments = <<NewComment(x, y, drawing)>> \o activeVersion.comments]
    IN  ReplaceVersion(versions, activeVersion.id, updatedVersion)

\* Faulty variant of TranslateDrawing: the shifted coordinates are clamped
\* to the 0-100 range.
TranslateDrawingClamped(d, dx, dy) ==
    IF d.type = "box" /\ d.rect # Null
      THEN [d EXCEPT !.rect = [d.rect EXCEPT !.x = Clamp100(RAdd(d.rect.x, dx)),
                                             !.y = Clamp100(RAdd(d.rect.y, dy))]]
    ELSE IF d.type = "pen" /\ d.points # <<>>
      THEN LET shift(q) == Pt(Clamp100(RAdd(q.x, dx)), Clamp100(RAdd(q.y, dy)))
           IN  [d EXCEPT !.points = MapSeq(d.points, [el \in SeqToSet(d.points) |-> shift(el)])]
    ELSE d

\* The drawing translated by (dx, dy): every pen point, or the box corner.
TranslateDrawing(d, dx, dy) ==
    IF d.type = "box" /\ d.rect # Null
      THEN [d EXCEPT !.rect = [d.rect EXCEPT !.x = RAdd(d.rect.x, dx),
                                             !.y = RAdd(d.rect.y, dy)]]
    ELSE IF d.type = "pen" /\ d.points # <<>>
      THEN LET shift(q) == Pt(RAdd(q.x, dx), RAdd(q.y, dy))
           IN  [d EXCEPT !.points = MapSeq(d.points,
                                           [el \in SeqToSet(d.points) |-> shift(el)])]
    ELSE d

\* c.x || 0
OrZero(v) == IF v = Null THEN Num(0) ELSE v

MovedComment(c, newX, newY) ==
    LET dx == RSub(newX, OrZero(c.x))
        dy == RSub(newY, OrZero(c.y))
    IN  [c EXCEPT !.x = newX, !.y = newY,
                  !.drawing = IF c.drawing.type = "none" THEN c.drawing
                              ELSE TranslateDrawing(c.drawing, dx, dy)]

handleUpdateCommentPosition(vs, id, newX, newY) ==
    LET move(c) == IF c.id # id THEN c ELSE MovedComment(c, newX, newY)
        inVersion(v) == IF v.id # activeVersionId THEN v
                        ELSE [v EXCEPT !.comments = MapSeq(v.comments,
                                                           [el \in SeqToSet(v.comments) |-> move(el)])]
    IN  MapSeq(vs, [el \in SeqToSet(vs) |-> inVersion(el)])

handleResolveComment(id) ==
    LET res(c) == IF c.id = id THEN [c EXCEPT !.resolved = TRUE] ELSE c
        updatedVersion ==
          [activeVersion EXCEPT !.comments = MapSeq(activeVersion.comments,
                                                    [el \in SeqToSet(activeVersion.comments) |-> res(el)])]
    IN  ReplaceVersion(versions, activeVersion.id, updatedVersion)

handleDeleteComment(id) ==
    LET updatedVersion ==
          [activeVersion EXCEPT !.comments =
             SelectSeq2(activeVersion.comments,
                        {c \in SeqToSet(activeVersion.comments) : c.id # id})]
    IN  ReplaceVersion(versions, activeVersion.id, updatedVersion)

handleReplyToComment(id, text, isInternal) ==
    LET reply == [id |-> "r_" \o ToString(now), userId |-> currentUser.id,
                  text |-> text, resolved |-> FALSE, isInternal |-> isInternal]
        add(c) == IF c.id = id THEN [c EXCEPT !.replies = Append(c.replies, reply)] ELSE c
        updatedVersion ==
          [activeVersion EXCEPT !.comments = MapSeq(activeVersion.comments,
                                                    [el \in SeqToSet(activeVersion.comments) |-> add(el)])]
    IN  ReplaceVersion(versions, activeVersion.id, updatedVersion)

handleInitialComment(id, text, isInternal) ==
    LET set(c) == IF c.id = id THEN [c EXCEPT !.text = text, !.isInternal = isInternal]
                  ELSE c
        updatedVersion ==
          [activeVersion EXCEPT !.comments = MapSeq(activeVersion.comments,
                                                    [el \in SeqToSet(activeVersion.comments) |-> set(el)])]
    IN  ReplaceVersion(versions, activeVersion.id, updatedVersion)

\* The onReply prop: the first text of a freshly placed pin, or a reply.
onReply(id, text, isInternal) ==
    IF \E c \in SeqToSet(activeVersion.comments) : c.id = id /\ c.text = ""
      THEN handleInitialComment(id, text, isInternal)
      ELSE handleReplyToComment(id, text, isInternal)

\* Faulty variant of uploadStatus: an upload keeps an APPROVED status.
uploadStatusKeepingApproved ==
    IF currentAssetStatus = "APPROVED" THEN "APPROVED" ELSE "PENDING"

\* handleUploadNewVersion: the status it sets.
uploadStatus == "PENDING"

\* Faulty variant of NewVersion: numbered from the oldest version of the list.
NewVersionFromOldest ==
    [id |-> "v_" \o ToString(now),
     versionNumber |-> versions[Len(versions)].versionNumber + 1,
     url |-> IF asset.type = "VIDEO" THEN "BigBuckBunny.mp4" ELSE "picsum/random",
     createdAt |-> now, comments |-> <<>>]

\* handleUploadNewVersion: the version it creates.
NewVersion ==
    [id |-> "v_" \o ToString(now), versionNumber |-> versions[1].versionNumber + 1,
     url |-> IF asset.type = "VIDEO" THEN "BigBuckBunny.mp4" ELSE "picsum/random",
     createdAt |-> now, comments |-> <<>>]

\* ------------------------------------------------- zoom and pan

ZoomMin == <<1, 10>>
ZoomMax == <<5, 1>>
WheelSensitivity == <<1, 500>>

\* Faulty variant of wheelZoom: the upper clamp is missing.
wheelZoomNoUpperClamp(deltaY) ==
    LET scaleAmount == RMul(Num(-deltaY), WheelSensitivity)
    IN  RMax(ZoomMin, RMul(zoom, RAdd(Num(1), scaleAmount)))

\* handleWheel: newZoom and the pan that keeps the point under the mouse fixed.
wheelZoom(deltaY) ==
    LET scaleAmount == RMul(Num(-deltaY), WheelSensitivity)
    IN  RMin(RMax(ZoomMin, RMul(zoom, RAdd(Num(1), scaleAmount))), ZoomMax)

\* Faulty variant of wheelPan: the pan before the zoom is left out.
wheelPanFromOrigin(newZoom, e) ==
    LET mouseX == Num(e.x - ViewportRect.left)
        mouseY == Num(e.y - ViewportRect.top)
        zoomRatio == RDiv(newZoom, zoom)
    IN  Pt(RSub(mouseX, RMul(mouseX, zoomRatio)),
           RSub(mouseY, RMul(mouseY, zoomRatio)))

wheelPan(newZoom, e) ==
    LET mouseX == Num(e.x - ViewportRect.left)
        mouseY == Num(e.y - ViewportRect.top)
        zoomRatio == RDiv(newZoom, zoom)
    IN  Pt(RSub(mouseX, RMul(RSub(mouseX, pan.x), zoomRatio)),
           RSub(mouseY, RMul(RSub(mouseY, pan.y), zoomRatio)))

\* handlePanStart
panStarts(button) == drawingTool = "hand" \/ button = 1

\* handlePanMove: the pan after the pointer moved to e.
panMoved(e) ==
    Pt(RAdd(pan.x, Num(e.x - lastMousePosRef.x)),
       RAdd(pan.y, Num(e.y - lastMousePosRef.y)))

\* ------------------------------------------------- video and keyboard

\* handleAddComment stamps videoTimestamp on every comment of a video asset and
\* on none of an image or document; the mock data carries no videoTimestamp.
hasVideoTimestamp(c) == asset.type = "VIDEO"

\* The effect on [activeCommentId, activeVersion]: whether it pauses playback.
jumpPauses(acId, av) ==
    /\ acId # NoId
    /\ \E c \in SeqToSet(av.comments) : c.id = acId /\ hasVideoTimestamp(c)

\* isVideoPlaying after the render that follows a handler: changed says
\* whether the handler replaced activeCommentId or the active version object.
afterJumpEffect(changed, playing) ==
    IF changed /\ jumpPauses(activeCommentId', activeVersion') THEN FALSE ELSE playing

\* The held Space press after an input that sets the tool.
ToolInput == IF spaceOverride.held THEN [spaceOverride EXCEPT !.clean = FALSE]
             ELSE spaceOverride

\* ------------------------------------------------- ComparisonView

\* The comparison view is rendered instead of the single view.
CompareViewMounted == isCompareMode /\ compareVersion # Null

\* The wipe container's client rectangle inside the viewport (below the
\* controls row, inside the paddings).
WipeRect == [left |-> 50, top |-> 90, width |-> 300, height |-> 60]

\* The window mousemove listener: the divider follows the pointer while
\* isDragging is set and the wipe container is rendered.
wipeMouseMove(e) ==
    IF ~isDragging \/ mode # "wipe" THEN wipePos
    ELSE Clamp100(RMul(RDiv(Num(e.x - WipeRect.left), Num(WipeRect.width)), Num(100)))

\* Mount and unmount of the view after a step that changes what the room
\* renders: useState / useRef initial values and the useEffect that adds
\* the window listeners on mount; its cleanup removes them on unmount.
CompareViewSync ==
    IF CompareViewMounted'
      THEN IF CompareViewMounted
             THEN UNCHANGED compareViewVars
             ELSE /\ mode' = "side-by-side"
                  /\ wipePos' = Num(50)
                  /\ isDragging' = FALSE
                  /\ windowListeners' = TRUE
      ELSE /\ mode' = "side-by-side"
           /\ wipePos' = Num(50)
           /\ isDragging' = FALSE
           /\ windowListeners' = FALSE

\* ------------------------------------------------- mouse events

\* The normalized point of a mouse event at q, measured against the content
\* box's rectangle at the time of the event.
eventPoint(q) ==
    LET rect == ContainerRect(zoom, pan)
    IN  Pt(RMul(RDiv(RSub(Num(q.x), rect.left), rect.width), Num(100)),
           RMul(RDiv(RSub(Num(q.y), rect.top), rect.height), Num(100)))

\* Before a mouse event is dispatched the browser updates the element under
\* the pointer: the overlay's onMouseLeave runs when the pointer has left it.
AfterBoundary(target) ==
    IF hover = "layer" /\ target # "layer" THEN handleMouseLeave(Layer) ELSE Layer

\* The callback handleMouseUp invoked, applied to the ReviewRoom state, with
\* the effect on [activeCommentId, activeVersion] that follows the render.
ApplyCall(call) ==
    IF call.kind = "add" /\ ~addCommentRefused THEN
        /\ now <= MaxClock
        /\ versions' = addCommentVersions(call.x, call.y, call.drawing)
        /\ activeCommentId' = NewComment(call.x, call.y, call.drawing).id
        /\ drawingTool' = "pointer"
        /\ now' = now + 1
        /\ isVideoPlaying' =
             afterJumpEffect(TRUE, IF asset.type = "VIDEO" THEN FALSE ELSE isVideoPlaying)
    ELSE IF call.kind = "move" THEN
        /\ versions' = handleUpdateCommentPosition(versions, call.id, call.x, call.y)
        /\ UNCHANGED <<activeCommentId, drawingTool, now>>
        /\ isVideoPlaying' = afterJumpEffect(TRUE, isVideoPlaying)
    ELSE UNCHANGED <<versions, activeCommentId, drawingTool, now, isVideoPlaying>>

\* mousemove to position p: onMouseLeave / onMouseMove of the overlay, then
\* handlePanMove (or handlePanEnd when the pointer leaves the viewport).
MouseMove(p) ==
    /\ ~isUploadModalOpen
    /\ p # ptr
    /\ LET target == HitTest(p)
           L0 == AfterBoundary(target)
           L1 == IF target = "layer" THEN handleMouseMove(L0, p) ELSE L0
       IN  /\ Len(L1.currentPath) <= MaxPath
           /\ SetLayer(L1)
           /\ hover' = target
           /\ IF target = "away"
                THEN /\ isPanningRef' = FALSE
                     /\ UNCHANGED <<pan, lastMousePosRef, panMoves>>
                ELSE IF isPanningRef
                  THEN /\ panMoves < MaxPanMoves
                       /\ pan' = panMoved(p)
                       /\ lastMousePosRef' = p
                       /\ panMoves' = panMoves + 1
                       /\ UNCHANGED isPanningRef
                  ELSE UNCHANGED <<pan, lastMousePosRef, panMoves, isPanningRef>>
    /\ ptr' = p
    /\ UNCHANGED recordPress
    /\ pressLog' = IF HitTest(p) # "layer" \/ hover # "layer" THEN <<>>
                   ELSE IF pressLog = <<>> THEN <<>>
                   ELSE Append(pressLog, eventPoint(p))
    /\ Len(pressLog') <= MaxLog
    /\ wipePos' = IF windowListeners THEN wipeMouseMove(p) ELSE wipePos
    /\ UNCHANGED <<appVars, roomVars, toolVars, threadVars, zoom, now, viewOps,
                   videoVars, keyVars, mode, isDragging, windowListeners>>

\* mousedown on the overlay or the viewport background: handleMouseDown of the
\* overlay (when it is the target), then handlePanStart.
MouseDown(button) ==
    /\ ~isUploadModalOpen
    /\ HitTest(ptr) # "away"
    /\ LET target == HitTest(ptr)
           L0 == AfterBoundary(target)
           L1 == IF target = "layer" THEN handleMouseDown(L0, ptr) ELSE L0
       IN  /\ SetLayer(L1)
           /\ hover' = target
    /\ IF panStarts(button)
         THEN isPanningRef' = TRUE /\ lastMousePosRef' = ptr
         ELSE UNCHANGED <<isPanningRef, lastMousePosRef>>
    /\ UNCHANGED recordPress
    /\ pressLog' = IF recordPress /\ HitTest(ptr) = "layer" THEN <<eventPoint(ptr)>> ELSE <<>>
    /\ UNCHANGED <<appVars, roomVars, toolVars, threadVars, zoom, pan, ptr, now,
                   viewOps, panMoves, videoVars, keyVars, compareViewVars>>

\* The comments the overlay renders a pin for.
Pins == {c \in SeqToSet(visibleComments) : ~c.resolved /\ c.x # Null /\ c.y # Null}

\* mousedown on the pin of comment c: handlePinMouseDown, which stops the
\* event from reaching the overlay and the viewport.
PinMouseDown(c) ==
    /\ ~isUploadModalOpen
    /\ HitTest(ptr) = "layer"
    /\ c \in Pins
    /\ LET r == handlePinMouseDown(AfterBoundary("layer"), c.id, OrZero(c.x), OrZero(c.y))
       IN  /\ SetLayer(r.layer)
           /\ activeCommentId' = IF r.select # NoId THEN r.select ELSE activeCommentId
    /\ hover' = "layer"
    /\ UNCHANGED <<appVars, asset, versions, currentAssetStatus, activeVersionId,
                   compareVersionId, isCompareMode, isUploadModalOpen, toolVars,
                   viewVars, threadVars, ptr, now, viewOps, panMoves,
                   keyVars, compareViewVars>>
    /\ pressLog' = <<>> /\ UNCHANGED recordPress
    /\ isVideoPlaying' = afterJumpEffect(activeCommentId' # activeCommentId, isVideoPlaying)

\* mouseup on the overlay or the viewport background: handleMouseUp of the
\* overlay (when it is the target) with its callback, then handlePanEnd.
MouseUp ==
    /\ ~isUploadModalOpen
    /\ HitTest(ptr) # "away"
    /\ UNCHANGED <<appVars, asset, currentAssetStatus, activeVersionId, compareVersionId,
                   isCompareMode, isUploadModalOpen, previousToolRef, threadVars,
                   zoom, pan, lastMousePosRef, ptr, viewOps, panMoves>>
    /\ LET target == HitTest(ptr)
           L0 == AfterBoundary(target)
           r == IF target = "layer" THEN handleMouseUp(L0, ptr)
                ELSE [layer |-> L0, call |-> NoCall]
       IN  /\ SetLayer(r.layer)
           /\ ApplyCall(r.call)
           /\ hover' = target
    /\ isPanningRef' = FALSE
    /\ pressLog' = <<>> /\ UNCHANGED recordPress
    /\ isDragging' = IF windowListeners THEN FALSE ELSE isDragging
    /\ UNCHANGED <<mode, wipePos, windowListeners>>
    /\ spaceOverride' = IF drawingTool' # drawingTool THEN ToolInput ELSE spaceOverride

\* mouseup outside the viewport (header, toolbar, sidebar): only the window
\* mouseup listener of the comparison view sees it.
MouseUpAway ==
    /\ HitTest(ptr) = "away"
    /\ isDragging' = IF windowListeners THEN FALSE ELSE isDragging
    /\ UNCHANGED <<appVars, roomVars, toolVars, viewVars, layerVars, threadVars, envVars,
                   videoVars, keyVars, gestureVars, mode, wipePos, windowListeners>>

\* mousedown on the wipe handle: ComparisonView's handleMouseDown, then
\* handlePanStart of the viewport the event bubbles to.
WipeMouseDown(button) ==
    /\ ~isUploadModalOpen
    /\ CompareViewMounted /\ mode = "wipe"
    /\ HitTest(ptr) = "viewport"
    /\ isDragging' = TRUE
    /\ IF panStarts(button)
         THEN isPanningRef' = TRUE /\ lastMousePosRef' = ptr
         ELSE UNCHANGED <<isPanningRef, lastMousePosRef>>
    /\ hover' = "viewport"
    /\ UNCHANGED <<appVars, roomVars, toolVars, zoom, pan, layerVars, threadVars,
                   ptr, now, viewOps, panMoves, videoVars, keyVars, gestureVars,
                   mode, wipePos, windowListeners>>

\* click on the Side-by-Side or the Wipe button of the comparison view; the
\* click bubbles to handleBackgroundClick.
SetMode(m) ==
    /\ ~isUploadModalOpen
    /\ CompareViewMounted
    /\ HitTest(ptr) = "viewport"
    /\ mode' = m
    /\ activeCommentId' = NoId
    /\ hover' = "viewport"
    /\ UNCHANGED <<appVars, asset, versions, currentAssetStatus, activeVersionId,
                   compareVersionId, isCompareMode, isUploadModalOpen, toolVars,
                   viewVars, layerVars, threadVars, ptr, now, viewOps, panMoves,
                   keyVars, gestureVars, wipePos, isDragging, windowListeners>>
    /\ isVideoPlaying' = afterJumpEffect(activeCommentId' # activeCommentId, isVideoPlaying)

\* click on the viewport background: handleBackgroundClick.
BackgroundClick ==
    /\ ~isUploadModalOpen
    /\ HitTest(ptr) = "viewport"
    /\ activeCommentId' = NoId
    /\ UNCHANGED <<appVars, asset, versions, currentAssetStatus, activeVersionId,
                   compareVersionId, isCompareMode, isUploadModalOpen, toolVars,
                   viewVars, layerVars, threadVars, ptr, hover, now, viewOps, panMoves,
                   videoVars, keyVars, gestureVars, compareViewVars>>

\* wheel over the viewport: handleWheel.
Wheel(deltaY) ==
    /\ ~isUploadModalOpen
    /\ HitTest(ptr) # "away"
    /\ IF isCompareMode
         THEN UNCHANGED <<zoom, pan, viewOps>>
         ELSE /\ viewOps < MaxViewOps
              /\ zoom' = wheelZoom(deltaY)
              /\ pan' = wheelPan(wheelZoom(deltaY), ptr)
              /\ viewOps' = viewOps + 1
    /\ UNCHANGED <<appVars, roomVars, toolVars, layerVars, threadVars,
                   isPanningRef, lastMousePosRef, ptr, hover, now, panMoves,
                   videoVars, keyVars, gestureVars, compareViewVars>>

\* ------------------------------------------------- controls

\* A click on a header, toolbar or sidebar control: the pointer is outside the
\* viewport and the upload modal does not cover the page.
UiReady == ptr = Away /\ ~isUploadModalOpen

\* Faulty variant of resetOnVersionChange: the effect is missing.
noResetOnVersionChange(newId) == UNCHANGED <<zoom, pan>>

\* handleResetZoom, as run by the useEffect on [activeVersionId].
resetOnVersionChange(newId) ==
    IF newId # activeVersionId
      THEN zoom' = Num(1) /\ pan' = Pt(Num(0), Num(0))
      ELSE UNCHANGED <<zoom, pan>>

\* App: "Demo: Switch User".
SwitchUser(u) ==
    /\ UiReady
    /\ u \in MOCK_USERS
    /\ currentUser' = u
    /\ UNCHANGED <<roomVars, toolVars, viewVars, layerVars, threadVars,
                   ptr, hover, now, viewOps, panMoves,
                   videoVars, keyVars, gestureVars, compareViewVars>>

\* Version switcher entry for version v.
SwitchVersion(v) ==
    /\ UiReady
    /\ v \in SeqToSet(versions)
    /\ activeVersionId' = v.id
    /\ isCompareMode' = FALSE
    /\ resetOnVersionChange(v.id)
    /\ UNCHANGED <<appVars, asset, versions, currentAssetStatus, compareVersionId,
                   activeCommentId, isUploadModalOpen, toolVars, isPanningRef,
                   lastMousePosRef, layerVars, threadVars, ptr, hover, now, viewOps, panMoves,
                   keyVars, gestureVars>>
    /\ CompareViewSync
    /\ isVideoPlaying' = afterJumpEffect(activeVersionId' # activeVersionId, isVideoPlaying)

\* handleToggleCompare (the button is shown when there is more than one version).
ToggleCompare ==
    /\ UiReady
    /\ Len(versions) > 1
    /\ IF ~isCompareMode
         THEN LET others == {i \in 1..Len(versions) : versions[i].id # activeVersionId}
                  other == IF others # {}
                             THEN versions[CHOOSE i \in others : \A j \in others : i <= j]
                             ELSE versions[1]
              IN  compareVersionId' = other.id /\ isCompareMode' = TRUE
         ELSE compareVersionId' = NoId /\ isCompareMode' = FALSE
    /\ SetLayer(FreshLayer)
    /\ UNCHANGED <<appVars, asset, versions, currentAssetStatus, activeVersionId,
                   activeCommentId, isUploadModalOpen, toolVars, viewVars, threadVars,
                   ptr, hover, now, viewOps, panMoves,
                   videoVars, keyVars, gestureVars>>
    /\ CompareViewSync

OpenUploadModal ==
    /\ UiReady
    /\ canUpload
    /\ isUploadModalOpen' = TRUE
    /\ UNCHANGED <<appVars, asset, versions, currentAssetStatus, activeVersionId,
                   compareVersionId, isCompareMode, activeCommentId, toolVars, viewVars,
                   layerVars, threadVars, ptr, hover, now, viewOps, panMoves,
                   videoVars, keyVars, gestureVars, compareViewVars>>

CloseUploadModal ==
    /\ isUploadModalOpen
    /\ isUploadModalOpen' = FALSE
    /\ UNCHANGED <<appVars, asset, versions, currentAssetStatus, activeVersionId,
                   compareVersionId, isCompareMode, activeCommentId, toolVars, viewVars,
                   layerVars, threadVars, ptr, hover, now, viewOps, panMoves,
                   videoVars, keyVars, gestureVars, compareViewVars>>

\* handleUploadNewVersion (submit of the modal's form).
handleUploadNewVersion ==
    /\ isUploadModalOpen
    /\ now <= MaxClock
    /\ versions' = <<NewVersion>> \o versions
    /\ activeVersionId' = NewVersion.id
    /\ isUploadModalOpen' = FALSE
    /\ isCompareMode' = FALSE
    /\ activeCommentId' = NoId
    /\ currentAssetStatus' = uploadStatus
    /\ compareVersionId' = versions[1].id
    /\ resetOnVersionChange(NewVersion.id)
    /\ now' = now + 1
    /\ UNCHANGED <<appVars, asset, toolVars, isPanningRef, lastMousePosRef, layerVars,
                   threadVars, ptr, hover, viewOps, panMoves,
                   videoVars, keyVars, gestureVars>>
    /\ CompareViewSync

\* Click on the Approve button (rendered for decision makers, disabled unless
\* canApprove; a disabled button dispatches no click): handleApprove.
handleApprove ==
    /\ UiReady
    /\ isDecisionMaker
    /\ canApprove
    /\ currentAssetStatus' = "APPROVED"
    /\ UNCHANGED <<appVars, asset, versions, activeVersionId, compareVersionId,
                   isCompareMode, activeCommentId, isUploadModalOpen, toolVars, viewVars,
                   layerVars, threadVars, ptr, hover, now, viewOps, panMoves,
                   videoVars, keyVars, gestureVars, compareViewVars>>

handleRequestChanges ==
    /\ UiReady
    /\ isDecisionMaker
    /\ currentAssetStatus' = "CHANGES_REQUESTED"
    /\ UNCHANGED <<appVars, asset, versions, activeVersionId, compareVersionId,
                   isCompareMode, activeCommentId, isUploadModalOpen, toolVars, viewVars,
                   layerVars, threadVars, ptr, hover, now, viewOps, panMoves,
                   videoVars, keyVars, gestureVars, compareViewVars>>

\* Toolbar buttons Comment Pin / Pan Tool / Freehand Draw.
\* Faulty variant of ToolbarTools: a toolbar with a box button.
ToolbarToolsWithBox == {"pointer", "hand", "pen", "box"}

ToolbarTools == {"pointer", "hand", "pen"}

SelectTool(t) ==
    /\ UiReady
    /\ ~isCompareMode
    /\ t \in ToolbarTools
    /\ drawingTool' = t
    /\ spaceOverride' = ToolInput
    /\ UNCHANGED <<appVars, roomVars, previousToolRef, viewVars, layerVars, threadVars,
                   ptr, hover, now, viewOps, panMoves, videoVars, gestureVars, compareViewVars>>

\* Keyboard shortcuts h / v / p (no text input focused).
ShortcutKeys == {"h", "v", "p"}

KeyDown(k) ==
    /\ k \in ShortcutKeys
    /\ drawingTool' = (IF k = "h" THEN "hand" ELSE IF k = "v" THEN "pointer" ELSE "pen")
    /\ spaceOverride' = ToolInput
    /\ UNCHANGED <<appVars, roomVars, previousToolRef, viewVars, layerVars, threadVars,
                   ptr, hover, now, viewOps, panMoves, videoVars, gestureVars, compareViewVars>>

\* handleKeyDown for Space, first keydown of a press (e.repeat false, no text
\* input focused): play/pause on a video asset, the temporary hand tool on an
\* image or document.
SpaceDown ==
    /\ ~spaceOverride.held
    /\ IF asset.type = "VIDEO"
         THEN /\ isVideoPlaying' = ~isVideoPlaying
              /\ UNCHANGED <<drawingTool, previousToolRef>>
         ELSE /\ IF drawingTool # "hand"
                   THEN previousToolRef' = drawingTool /\ drawingTool' = "hand"
                   ELSE UNCHANGED <<drawingTool, previousToolRef>>
              /\ UNCHANGED isVideoPlaying
    /\ spaceOverride' = Override(drawingTool)
    /\ UNCHANGED <<appVars, roomVars, viewVars, layerVars, threadVars,
                   ptr, hover, now, viewOps, panMoves, gestureVars, compareViewVars>>

\* handleKeyDown for Space, auto-repeat keydown of a held press (e.repeat
\* true): on a video asset each one toggles playback again; on an image or
\* document it changes nothing.
SpaceRepeat ==
    /\ spaceOverride.held
    /\ asset.type = "VIDEO"
    /\ isVideoPlaying' = ~isVideoPlaying
    /\ UNCHANGED <<appVars, roomVars, toolVars, viewVars, layerVars, threadVars,
                   ptr, hover, now, viewOps, panMoves, keyVars, gestureVars, compareViewVars>>

\* handleKeyUp for Space (no text input focused).  It also runs for a press
\* whose keydown went to a focused text input, so it is not guarded by a
\* held press.
SpaceUp ==
    /\ IF asset.type # "VIDEO"
         THEN drawingTool' = previousToolRef
         ELSE UNCHANGED drawingTool
    /\ spaceOverride' = NoOverride
    /\ UNCHANGED <<appVars, roomVars, previousToolRef, viewVars, layerVars, threadVars,
                   ptr, hover, now, viewOps, panMoves, videoVars, gestureVars, compareViewVars>>

\* The player's play / pause button and centre play button: onTogglePlay.
TogglePlay ==
    /\ ~isUploadModalOpen
    /\ asset.type = "VIDEO"
    /\ isVideoPlaying' = ~isVideoPlaying
    /\ UNCHANGED <<appVars, roomVars, toolVars, viewVars, layerVars, threadVars,
                   ptr, hover, now, viewOps, panMoves, keyVars, gestureVars, compareViewVars>>

\* The video's ended event, a frame step or a marker jump while playing:
\* isPlaying && onTogglePlay().
PausePlayback ==
    /\ ~isUploadModalOpen
    /\ asset.type = "VIDEO"
    /\ isVideoPlaying
    /\ isVideoPlaying' = FALSE
    /\ UNCHANGED <<appVars, roomVars, toolVars, viewVars, layerVars, threadVars,
                   ptr, hover, now, viewOps, panMoves, keyVars, gestureVars, compareViewVars>>

\* Zoom In / Zoom Out / Reset Zoom buttons.
ZoomStep == <<1, 4>>

ZoomIn ==
    /\ UiReady /\ ~isCompareMode
    /\ viewOps < MaxViewOps
    /\ zoom' = RMin(ZoomMax, RAdd(zoom, ZoomStep))
    /\ viewOps' = viewOps + 1
    /\ UNCHANGED <<appVars, roomVars, toolVars, pan, isPanningRef, lastMousePosRef,
                   layerVars, threadVars, ptr, hover, now, panMoves,
                   videoVars, keyVars, gestureVars, compareViewVars>>

ZoomOut ==
    /\ UiReady /\ ~isCompareMode
    /\ viewOps < MaxViewOps
    /\ zoom' = RMax(ZoomMin, RSub(zoom, ZoomStep))
    /\ viewOps' = viewOps + 1
    /\ UNCHANGED <<appVars, roomVars, toolVars, pan, isPanningRef, lastMousePosRef,
                   layerVars, threadVars, ptr, hover, now, panMoves,
                   videoVars, keyVars, gestureVars, compareViewVars>>

handleResetZoom ==
    /\ UiReady /\ ~isCompareMode
    /\ zoom' = Num(1)
    /\ pan' = Pt(Num(0), Num(0))
    /\ UNCHANGED <<appVars, roomVars, toolVars, isPanningRef, lastMousePosRef,
                   layerVars, threadVars, ptr, hover, now, viewOps, panMoves,
                   videoVars, keyVars, gestureVars, compareViewVars>>

\* ------------------------------------------------- CommentThread

canPostInternal == currentUser.role # "APPROVER"
canDelete(c) == currentUser.id = c.userId \/ currentUser.role = "SUPER_ADMIN"

\* The filter tab of the sidebar; 'OPEN' is its initial value and the tabs are
\* not operated here.
filter == "OPEN"

\* The comment cards the sidebar renders: comments (the visibleComments prop)
\* passed through the filter tab.  The order by timestamp is not represented.
sortedComments ==
    {c \in SeqToSet(visibleComments) :
        IF filter = "OPEN" THEN ~c.resolved
        ELSE IF filter = "RESOLVED" THEN c.resolved
        ELSE TRUE}

\* The replies rendered inside the card of comment c: comment.replies.map.
renderedReplies(c) == c.replies

\* Click on a comment card: onSelect, then the click bubbles to the workspace
\* element, whose handleBackgroundClick clears a selection that was set before
\* the click (both updates are batched; the later one is applied last).
SelectComment(c) ==
    /\ UiReady
    /\ c \in SeqToSet(visibleComments)
    /\ activeCommentId' = IF activeCommentId # NoId THEN NoId ELSE c.id
    /\ UNCHANGED <<appVars, asset, versions, currentAssetStatus, activeVersionId,
                   compareVersionId, isCompareMode, isUploadModalOpen, toolVars,
                   viewVars, layerVars, threadVars, ptr, hover, now, viewOps, panMoves,
                   keyVars, gestureVars, compareViewVars>>
    /\ isVideoPlaying' = afterJumpEffect(activeCommentId' # activeCommentId,
                           IF hasVideoTimestamp(c) THEN FALSE ELSE isVideoPlaying)

\* "Done" button of an unresolved comment.
ResolveComment(c) ==
    /\ UiReady
    /\ c \in SeqToSet(visibleComments) /\ ~c.resolved
    /\ versions' = handleResolveComment(c.id)
    /\ UNCHANGED <<appVars, asset, currentAssetStatus, activeVersionId, compareVersionId,
                   isCompareMode, activeCommentId, isUploadModalOpen, toolVars,
                   viewVars, layerVars, threadVars, ptr, hover, now, viewOps, panMoves,
                   keyVars, gestureVars, compareViewVars>>
    /\ isVideoPlaying' = afterJumpEffect(TRUE, isVideoPlaying)

\* Trash button of an unresolved comment the user may delete.
DeleteComment(c) ==
    /\ UiReady
    /\ c \in SeqToSet(visibleComments) /\ ~c.resolved /\ canDelete(c)
    /\ versions' = handleDeleteComment(c.id)
    /\ activeCommentId' = IF activeCommentId = c.id THEN NoId ELSE activeCommentId
    /\ UNCHANGED <<appVars, asset, currentAssetStatus, activeVersionId, compareVersionId,
                   isCompareMode, isUploadModalOpen, toolVars,
                   viewVars, layerVars, threadVars, ptr, hover, now, viewOps, panMoves,
                   keyVars, gestureVars, compareViewVars>>
    /\ isVideoPlaying' = afterJumpEffect(TRUE, isVideoPlaying)

\* The reply area is rendered for the active, unresolved comment.
ReplyAreaShown(c) == c \in SeqToSet(visibleComments) /\ activeCommentId = c.id /\ ~c.resolved

\* "Internal Team Only" / "Public Reply" toggle.
ToggleInternal(c) ==
    /\ UiReady
    /\ ReplyAreaShown(c)
    /\ canPostInternal
    /\ replyInternal' = IF c.id \in replyInternal THEN replyInternal \ {c.id}
                        ELSE replyInternal \cup {c.id}
    /\ UNCHANGED <<appVars, roomVars, toolVars, viewVars, layerVars, ptr, hover, now, viewOps, panMoves,
                   videoVars, keyVars, gestureVars, compareViewVars,
                   replyDrafts, aiSuggestions, suggestRequests, suggestLog>>

\* replyDrafts[id] || '': the value the reply input shows.
DraftOf(id) == IF id \in DOMAIN replyDrafts THEN replyDrafts[id] ELSE ""

\* { ...prev, [id]: value }
WithKey(rec, id, value) == (id :> value) @@ rec

\* delete copy[id]
WithoutKey(rec, id) == [k \in DOMAIN rec \ {id} |-> rec[k]]

\* History: the user's edit or send left text in the draft of comment id.
UserWrote(id, text) ==
    IF id \in DOMAIN suggestLog
    THEN [suggestLog EXCEPT ![id].userLater = {text}]
    ELSE suggestLog

\* onChange of the reply input: the user edits the draft.
EditDraft(c, text) ==
    /\ UiReady
    /\ ReplyAreaShown(c)
    /\ text # DraftOf(c.id)
    /\ replyDrafts' = WithKey(replyDrafts, c.id, text)
    /\ suggestLog' = UserWrote(c.id, text)
    /\ UNCHANGED <<appVars, roomVars, toolVars, viewVars, layerVars, replyInternal,
                   aiSuggestions, suggestRequests, envVars, videoVars, keyVars,
                   gestureVars, compareViewVars>>

\* handleSendReply: text is the draft, and it is not blank.
handleSendReply(c, text) ==
    /\ UiReady
    /\ ReplyAreaShown(c)
    /\ text = DraftOf(c.id)
    /\ text # ""
    /\ versions' = onReply(c.id, text, c.id \in replyInternal)
    /\ replyDrafts' = WithKey(replyDrafts, c.id, "")
    /\ aiSuggestions' = WithoutKey(aiSuggestions, c.id)
    /\ suggestLog' = UserWrote(c.id, "")
    /\ IF c.text = "" THEN UNCHANGED now
       ELSE now <= MaxClock /\ now' = now + 1
    /\ UNCHANGED <<appVars, asset, currentAssetStatus, activeVersionId, compareVersionId,
                   isCompareMode, activeCommentId, isUploadModalOpen, toolVars,
                   viewVars, layerVars, replyInternal, suggestRequests,
                   ptr, hover, viewOps, panMoves,
                   keyVars, gestureVars, compareViewVars>>
    /\ isVideoPlaying' = afterJumpEffect(TRUE, isVideoPlaying)

\* The draft handleGetSuggestion shows while the request is in flight.
GeneratingText == "Generating suggestion..."

\* suggestReply: the text the service answers with, or "" when the answer has
\* no text or the call fails.
suggestReply(text) == SuggestionTexts \cup {""}

\* The number of suggestions requested for comment id so far.
Issued(id) == IF id \in DOMAIN suggestLog THEN suggestLog[id].issued ELSE 0

\* The requests for comment id that have not resolved.
InFlight(id) == {q \in suggestRequests : q.id = id}

\* Sparkles button of an unresolved comment: handleGetSuggestion up to its
\* await.
GetSuggestion(c) ==
    /\ UiReady
    /\ c \in SeqToSet(visibleComments) /\ ~c.resolved
    /\ Issued(c.id) < MaxRequests
    /\ replyDrafts' = WithKey(replyDrafts, c.id, GeneratingText)
    /\ suggestRequests' = suggestRequests \cup
                            {[id |-> c.id, text |-> c.text, seq |-> Issued(c.id) + 1]}
    /\ suggestLog' = WithKey(suggestLog, c.id,
                             [issued |-> Issued(c.id) + 1, result |-> {}, userLater |-> {}])
    /\ UNCHANGED <<appVars, roomVars, toolVars, viewVars, layerVars, replyInternal,
                   aiSuggestions, envVars, videoVars, keyVars, gestureVars,
                   compareViewVars>>

\* The awaited suggestReply call of request q resolves with suggestion:
\* handleGetSuggestion after its await.
ResolveSuggestion(q, suggestion) ==
    /\ q \in suggestRequests
    /\ suggestion \in suggestReply(q.text)
    /\ aiSuggestions' = WithKey(aiSuggestions, q.id, suggestion)
    /\ replyDrafts' = WithKey(replyDrafts, q.id, suggestion)
    /\ suggestRequests' = suggestRequests \ {q}
    /\ suggestLog' = IF q.seq = Issued(q.id)
                     THEN [suggestLog EXCEPT ![q.id].result = {suggestion}]
                     ELSE suggestLog
    /\ UNCHANGED <<appVars, roomVars, toolVars, viewVars, layerVars, replyInternal,
                   envVars, videoVars, keyVars, gestureVars, compareViewVars>>

\* ------------------------------------------------- specification

AllComments == UNION {SeqToSet(versions[i].comments) : i \in 1..Len(versions)}

\* The approval workflow: roles, status, versions and the open tasks of the
\* active version, with comments placed by a click on the overlay.
ReviewPositions == {Away, Pt(120, 20)}

Next ==
    \/ \E p \in ReviewPositions : MouseMove(p)
    \/ MouseDown(0)
    \/ MouseUp
    \/ \E u \in MOCK_USERS : SwitchUser(u)
    \/ \E v \in SeqToSet(versions) : SwitchVersion(v)
    \/ OpenUploadModal
    \/ CloseUploadModal
    \/ handleUploadNewVersion
    \/ handleApprove
    \/ handleRequestChanges
    \/ \E c \in AllComments : ResolveComment(c)
    \/ \E c \in AllComments : DeleteComment(c)
    \/ \E c \in AllComments : ToggleInternal(c)
    \/ \E c \in AllComments, t \in ReplyTexts : EditDraft(c, t)
    \/ \E c \in AllComments, t \in ReplyTexts : handleSendReply(c, t)

Spec == Init /\ [][Next]_vars

\* The comment operations: placing, dragging, selecting, first text, reply,
\* resolve and delete by the creator, across version switches and uploads.
CommentPositions == {Away, Pt(120, 20), Pt(126, 24)}
NextComments ==
    \/ \E p \in CommentPositions : MouseMove(p)
    \/ MouseDown(0)
    \/ \E c \in AllComments : PinMouseDown(c)
    \/ MouseUp
    \/ \E v \in SeqToSet(versions) : SwitchVersion(v)
    \/ OpenUploadModal
    \/ CloseUploadModal
    \/ handleUploadNewVersion
    \/ \E c \in AllComments : SelectComment(c)
    \/ \E c \in AllComments : ResolveComment(c)
    \/ \E c \in AllComments : DeleteComment(c)
    \/ \E c \in AllComments, t \in ReplyTexts : EditDraft(c, t)
    \/ \E c \in AllComments, t \in ReplyTexts : handleSendReply(c, t)

SpecComments == Init /\ [][NextComments]_vars

\* The pointer state machine: overlay and background positions, both buttons,
\* pins and the toolbar.
GesturePositions == {Away, Pt(50, 20), Pt(120, 20)}

NextGesture ==
    \/ \E p \in GesturePositions : MouseMove(p)
    \/ \E b \in MouseButtons : MouseDown(b)
    \/ \E c \in AllComments : PinMouseDown(c)
    \/ MouseUp
    \/ BackgroundClick
    \/ \E t \in ToolbarTools : SelectTool(t)

SpecGesture == Init /\ [][NextGesture]_vars

\* The AnnotationLayer's press / move / release cycle under every drawing
\* tool, for a role that may comment and one that may not.
LayerViewers == {u \in MOCK_USERS : u.role \in {"CREATOR", "OBSERVER"}}

NextLayer ==
    \/ \E p \in LayerPositions \cup {Away} : MouseMove(p)
    \/ MouseDown(0)
    \/ MouseUp
    \/ \E u \in LayerViewers : SwitchUser(u)

SpecLayer == InitAnyTool /\ [][NextLayer]_vars

\* The viewport transform: wheel zoom, zoom buttons, pan drag with the middle
\* button, and the resets on version change.
ViewportPositions == {Away, Pt(50, 20), Pt(120, 20)}

NextViewport ==
    \/ \E p \in ViewportPositions : MouseMove(p)
    \/ MouseDown(1)
    \/ MouseUp
    \/ \E d \in WheelDeltas : Wheel(d)
    \/ \E v \in SeqToSet(versions) : SwitchVersion(v)
    \/ OpenUploadModal
    \/ CloseUploadModal
    \/ handleUploadNewVersion
    \/ ZoomIn
    \/ ZoomOut
    \/ handleResetZoom

SpecViewport == Init /\ [][NextViewport]_vars

\* The tool state machine: toolbar, shortcuts, Space presses, playback
\* controls and the gestures whose commit sets the tool back to the pointer.
KeyPositions == {Away, Pt(120, 20)}

NextKeys ==
    \/ \E p \in KeyPositions : MouseMove(p)
    \/ MouseDown(0)
    \/ MouseUp
    \/ \E t \in ToolbarTools : SelectTool(t)
    \/ \E k \in ShortcutKeys : KeyDown(k)
    \/ SpaceDown
    \/ SpaceRepeat
    \/ SpaceUp
    \/ TogglePlay
    \/ PausePlayback

SpecKeys == Init /\ [][NextKeys]_vars

\* The sidebar threads: placing a comment by click, selecting, first text,
\* replies with the internal toggle, resolve and delete, under every user.
NextThread ==
    \/ \E p \in ReviewPositions : MouseMove(p)
    \/ MouseDown(0)
    \/ MouseUp
    \/ \E u \in MOCK_USERS : SwitchUser(u)
    \/ \E c \in AllComments : SelectComment(c)
    \/ \E c \in AllComments : ResolveComment(c)
    \/ \E c \in AllComments : DeleteComment(c)
    \/ \E c \in AllComments : ToggleInternal(c)
    \/ \E c \in AllComments, t \in ReplyTexts : EditDraft(c, t)
    \/ \E c \in AllComments, t \in ReplyTexts : handleSendReply(c, t)

SpecThread == Init /\ [][NextThread]_vars

\* AI reply suggestions: requests for the comments of the sidebar resolving
\* in any order, while the user selects a comment, edits its draft and sends.
DraftTexts == ReplyTexts \cup SuggestionTexts

NextSuggest ==
    \/ \E c \in AllComments : SelectComment(c)
    \/ \E c \in AllComments : GetSuggestion(c)
    \/ \E q \in suggestRequests, r \in SuggestionTexts \cup {""} : ResolveSuggestion(q, r)
    \/ \E c \in AllComments, t \in ReplyTexts : EditDraft(c, t)
    \/ \E c \in AllComments, t \in DraftTexts : handleSendReply(c, t)

SpecSuggest == Init /\ [][NextSuggest]_vars

\* Pin drags: comments drawn with the pointer, pen or box tool and the mock
\* comment are dragged over the overlay, released, or carried off it.
DragPositions == {Away, Pt(120, 20), Pt(122, 20), Pt(140, 40)}

NextDrag ==
    \/ \E p \in DragPositions : MouseMove(p)
    \/ MouseDown(0)
    \/ \E c \in AllComments : PinMouseDown(c)
    \/ MouseUp

SpecDrag == InitAnyTool /\ [][NextDrag]_vars

\* Pin drags under a moving viewport: the wheel turns between, and during,
\* the presses that place a comment and drag its pin.
DragZoomPositions == {Away, Pt(120, 20), Pt(140, 40)}
DragZoomDeltas == {-2500, 1000}

NextDragZoom ==
    \/ \E p \in DragZoomPositions : MouseMove(p)
    \/ MouseDown(0)
    \/ \E c \in AllComments : PinMouseDown(c)
    \/ MouseUp
    \/ \E d \in DragZoomDeltas : Wheel(d)

SpecDragZoom == Init /\ [][NextDragZoom]_vars

\* Pen strokes with the tool changed by shortcut between and during presses.
StrokePositions == {Away, Pt(120, 20), Pt(122, 20)}
StrokeKeys == {"v", "p"}

NextStroke ==
    \/ \E p \in StrokePositions : MouseMove(p)
    \/ MouseDown(0)
    \/ MouseUp
    \/ \E k \in StrokeKeys : KeyDown(k)

SpecStroke == InitRecorded /\ [][NextStroke]_vars

\* The comparison view: entering and leaving compare mode, the two view
\* modes and the wipe divider dragged with the pointer.
ComparePositions == {Away, Pt(125, 100), Pt(275, 100)}
CompareModes == {"side-by-side", "wipe"}

NextCompare ==
    \/ \E p \in ComparePositions : MouseMove(p)
    \/ MouseDown(0)
    \/ MouseUp
    \/ MouseUpAway
    \/ WipeMouseDown(0)
    \/ \E m \in CompareModes : SetMode(m)
    \/ ToggleCompare
    \/ \E v \in SeqToSet(versions) : SwitchVersion(v)

SpecCompare == Init /\ [][NextCompare]_vars

\* ------------------------------------------------- properties

\* The comments stored under the version whose id is activeVersionId
\* (unfiltered), read from versions directly.
StoredActiveComments ==
    UNION {SeqToSet(versions[i].comments) :
             i \in {k \in 1..Len(versions) : versions[k].id = activeVersionId}}

\* C1: a step moves the status to APPROVED only when the current user is an
\* Approver or a SuperAdmin and either no comment stored under the active
\* version (internal ones included) is unresolved or the user is a SuperAdmin;
\* in every other case the status is not moved to APPROVED.
ApproveGate ==
    [][(currentAssetStatus' = "APPROVED" /\ currentAssetStatus # "APPROVED") =>
         /\ currentUser.role \in {"APPROVER", "SUPER_ADMIN"}
         /\ \/ \A c \in StoredActiveComments : c.resolved
            \/ currentUser.role = "SUPER_ADMIN"]_vars

\* C1 witness: asset a1 (opened with changes requested and an open comment)
\* stands approved in front of an Approver once every comment of the active
\* version, an internal one among them, has been resolved.
ApproveGateWitness ==
    /\ asset.id = "a1"
    /\ currentAssetStatus = "APPROVED"
    /\ currentUser.role = "APPROVER"
    /\ activeVersionId = "v2"
    /\ \E c \in StoredActiveComments : c.isInternal
    /\ \A c \in StoredActiveComments : c.resolved

\* C2: what ReviewRoom hands to the pins and the sidebar is, for an Approver,
\* exactly the stored comments of the active version that are not internal,
\* in order, and for every other role the whole stored list; and a change of
\* the viewing user leaves every stored version and comment as it was.
VisibilityFilter ==
    /\ [](/\ SeqToSet(visibleComments) =
               {c \in StoredActiveComments :
                  ~(currentUser.role = "APPROVER" /\ c.isInternal)}
          /\ currentUser.role # "APPROVER" =>
               visibleComments = activeVersion.comments
          /\ Pins \subseteq SeqToSet(visibleComments))
    /\ [][currentUser' # currentUser => versions' = versions]_vars

\* C2 witness: an Approver views a version that stores an internal comment,
\* which the rendered list leaves out.
VisibilityFilterWitness ==
    /\ currentUser.role = "APPROVER"
    /\ \E c \in StoredActiveComments : c.isInternal /\ ~c.resolved
    /\ Len(visibleComments) < Len(activeVersion.comments)

\* The ids of all stored comments.
CommentIds(vs) == {c.id : c \in UNION {SeqToSet(vs[i].comments) : i \in 1..Len(vs)}}

\* C3: in every step of a gesture that is panning (isPanningRef is set before
\* or after the step, so from its pointer-down to its pointer-up) no drawing
\* press-state is started on the overlay and no comment is added to any version.
PanExclusive ==
    [][(isPanningRef \/ isPanningRef') =>
         /\ ~(~isDrawing /\ isDrawing')
         /\ CommentIds(versions') \subseteq CommentIds(versions)]_vars

\* C3 witness: a pen stroke has been started on the overlay by the press that
\* started the pan.
PanExclusiveWitness ==
    /\ isPanningRef
    /\ isDrawing
    /\ drawingTool = "pen"
    /\ Len(currentPath) = 1
    /\ lastMousePosRef = ptr

\* C4: the overlay press-state, the pin drag and the viewport pan are never
\* active together.
OneGestureAtATime ==
    /\ ~(isDrawing /\ draggedCommentId # NoId)
    /\ ~(isDrawing /\ isPanningRef)
    /\ ~(draggedCommentId # NoId /\ isPanningRef)

\* C4 witness: a press on the overlay has started while the viewport pans
\* with a tool other than the hand.
OneGestureAtATimeWitness ==
    /\ isDrawing
    /\ isPanningRef
    /\ drawingTool # "hand"
    /\ hover = "layer"

\* The number of stored comments over all versions.
CommentCount(vs) ==
    LET F[i \in 0..Len(vs)] == IF i = 0 THEN 0 ELSE F[i - 1] + Len(vs[i].comments)
    IN  F[Len(vs)]

\* A mouseup that ends a pen or box press on the overlay, by a user who may
\* comment, outside compare mode.
PenBoxRelease ==
    /\ isDrawing /\ draggedCommentId = NoId
    /\ drawingTool \in {"pen", "box"}
    /\ drawingTool = "box" => currentRect # Null
    /\ currentUser.role # "OBSERVER"
    /\ ~isCompareMode
    /\ hover = "layer" /\ HitTest(ptr) = "layer"
    /\ MouseUp

VersionIds(vs) == {vs[i].id : i \in 1..Len(vs)}

\* C6: no comment id is stored under two versions; a step leaves every version
\* other than the one active when it is taken exactly as it was (id, number,
\* url, comments); and a version that appears in a step has no comments.
CommentsScopedToActiveVersion ==
    /\ [](\A i, j \in 1..Len(versions) :
            i # j => CommentIds(<<versions[i]>>) \cap CommentIds(<<versions[j]>>) = {})
    /\ [][/\ \A v \in SeqToSet(versions) :
               v.id # activeVersionId => v \in SeqToSet(versions')
          /\ \A w \in SeqToSet(versions') :
               w.id \notin VersionIds(versions) => w.comments = <<>>]_vars

\* C6 witness: on asset a1 a comment was placed on the older version v1 and
\* given its first text, while v2 holds what it held on mount.
CommentsScopedWitness ==
    /\ asset.id = "a1"
    /\ activeVersionId = "v1"
    /\ \E c \in SeqToSet(FindVersion(versions, "v1").comments) :
          c.id = "c_1" /\ c.text = "ok"
    /\ FindVersion(versions, "v2") = asset.versions[1]

\* C7: a step that adds a version leaves the status PENDING, whatever the
\* status was before (APPROVED and CHANGES_REQUESTED included).
UploadResetsStatus ==
    [][VersionIds(versions') # VersionIds(versions) =>
         currentAssetStatus' = "PENDING"]_vars

\* C7 witness: asset a3, opened APPROVED, is PENDING after an upload.
UploadResetsStatusWitness ==
    /\ asset.status = "APPROVED"
    /\ Len(versions) = Len(asset.versions) + 1
    /\ currentAssetStatus = "PENDING"

\* C8: version numbers strictly decrease along the list (so are pairwise
\* distinct); a step either keeps the list's length, ids and numbers, or
\* prepends exactly one version, whose number exceeds every existing one,
\* in front of the unchanged prior list.
VersionsAppendOnly ==
    /\ [](\A i, j \in 1..Len(versions) :
            i < j => versions[i].versionNumber > versions[j].versionNumber)
    /\ [][\/ /\ Len(versions') = Len(versions)
             /\ \A i \in 1..Len(versions) :
                  /\ versions'[i].id = versions[i].id
                  /\ versions'[i].versionNumber = versions[i].versionNumber
                  /\ versions'[i].url = versions[i].url
          \/ /\ Tail(versions') = versions
             /\ \A v \in SeqToSet(versions) :
                  Head(versions').versionNumber > v.versionNumber
             /\ Head(versions').id \notin VersionIds(versions)]_vars

\* C8 witness: a third version was uploaded to asset a1 in front of v2 and
\* v1, and v2 still holds its comment.
VersionsAppendOnlyWitness ==
    /\ asset.id = "a1"
    /\ Len(versions) = 3
    /\ versions[1].versionNumber = 3
    /\ versions[2].id = "v2" /\ versions[2].comments # <<>>
    /\ versions[3].id = "v1"

\* C9: a step that changes the active version leaves zoom 1 and pan (0, 0).
VersionChangeResetsView ==
    [][activeVersionId' # activeVersionId =>
         zoom' = Num(1) /\ pan' = Pt(Num(0), Num(0))]_vars

\* C9 witness: the view was zoomed, then another version was made active and
\* the view is back at zoom 1, pan (0, 0).
VersionChangeResetsViewWitness ==
    /\ viewOps > 0
    /\ activeVersionId # asset.versions[1].id
    /\ zoom = Num(1)
    /\ pan = Pt(Num(0), Num(0))

\* The pointer position relative to the viewport's top-left corner.
MouseInViewport ==
    Pt(Num(ptr.x - ViewportRect.left), Num(ptr.y - ViewportRect.top))

\* C10: a wheel step outside compare mode keeps the content point under the
\* pointer, (m - pan) / zoom, on both axes, also when the new zoom is the
\* clamped value; the new pan is m - (m - pan) * (zoom' / zoom), computed
\* from the pan before the step; and the new zoom is within [0.1, 5].
ZoomAnchorInvariance ==
    [][(HitTest(ptr) # "away" /\ ~isCompareMode /\ \E d \in WheelDeltas : Wheel(d)) =>
         LET m == MouseInViewport
         IN  /\ RDiv(RSub(m.x, pan'.x), zoom') = RDiv(RSub(m.x, pan.x), zoom)
             /\ RDiv(RSub(m.y, pan'.y), zoom') = RDiv(RSub(m.y, pan.y), zoom)
             /\ pan'.x = RSub(m.x, RMul(RSub(m.x, pan.x), RDiv(zoom', zoom)))
             /\ pan'.y = RSub(m.y, RMul(RSub(m.y, pan.y), RDiv(zoom', zoom)))
             /\ RLe(ZoomMin, zoom') /\ RLe(zoom', ZoomMax)]_vars

\* C10 witness: after two zoom steps the pointer is over the viewport, the
\* zoom is the clamped maximum (which only the wheel reaches within two steps)
\* and the pan has moved off (0, 0) to keep the anchor.
ZoomAnchorWitness ==
    /\ viewOps = 2
    /\ zoom = ZoomMax
    /\ pan.x # Num(0)
    /\ HitTest(ptr) # "away"

\* C11: in every state reached by wheel zooms of either sign (beyond both
\* clamps included), zoom-in and zoom-out buttons and resets, the zoom factor
\* is within [0.1, 5].
ZoomWithinLimits == RLe(ZoomMin, zoom) /\ RLe(zoom, ZoomMax)

\* C11 witness: two zoom steps have been taken, the zoom stands at the lower
\* limit and the pan has followed the pointer.
ZoomWithinLimitsWitness ==
    /\ viewOps = 2
    /\ zoom = ZoomMin
    /\ pan # Pt(Num(0), Num(0))

\* C12: a step that adds a comment (a point, pen or box commit) adds exactly
\* one, at the head of the active version's list with the former list behind
\* it unchanged and every other version unchanged; the new comment has a new
\* id, empty text, is unresolved, authored by the current user, not internal
\* and without replies; it becomes the active comment; and the tool after the
\* step is the pointer.
CommitPrependsAndSelects ==
    [][CommentCount(versions') > CommentCount(versions) =>
         LET new == activeVersion'.comments
             c == Head(new)
         IN  /\ activeVersionId' = activeVersionId
             /\ new = <<c>> \o activeVersion.comments
             /\ \A i \in 1..Len(versions) :
                  versions[i].id # activeVersion.id => versions'[i] = versions[i]
             /\ Len(versions') = Len(versions)
             /\ c.id \notin CommentIds(versions)
             /\ c.text = "" /\ ~c.resolved /\ ~c.isInternal /\ c.replies = <<>>
             /\ c.userId = currentUser.id
             /\ activeCommentId' = c.id
             /\ drawingTool' = "pointer"]_vars

\* C12 witness: on asset a1 a box drawn with the box tool stands at the head
\* of version v2's list in front of the mock comment c1, is the active
\* comment, and the tool is back at the pointer.
CommitPrependsAndSelectsWitness ==
    /\ asset.id = "a1"
    /\ Len(activeVersion.comments) = 2
    /\ activeVersion.comments[1].drawing.type = "box"
    /\ activeVersion.comments[1].userId = currentUser.id
    /\ activeVersion.comments[2].id = "c1"
    /\ activeCommentId = activeVersion.comments[1].id
    /\ drawingTool = "pointer"

\* C13: on an image or document asset, the key-up of a Space press during
\* which no other tool input was given leaves the tool that was active before
\* the key-down, whatever that tool was.
SpaceHoldRestoresTool ==
    [][(/\ asset.type # "VIDEO"
        /\ spaceOverride.held /\ spaceOverride.clean
        /\ SpaceUp) => drawingTool' = spaceOverride.before]_vars

\* C13 witness: Space is held, it went down while the hand tool was the
\* active tool, no tool input was given since, and the tool remembered for
\* the restore is another one.
SpaceHoldRestoresToolWitness ==
    /\ asset.type # "VIDEO"
    /\ spaceOverride.held /\ spaceOverride.clean
    /\ spaceOverride.before = "hand"
    /\ drawingTool = "hand"
    /\ previousToolRef # "hand"

\* C14: on an image or document asset a Space key-down with the pen or box
\* tool active does not make the hand the active tool; on a video asset a
\* Space key-down (first or repeated) toggles playback and changes nothing
\* else, and a Space key-up changes neither the tool nor playback.
SpaceOverrideSparesDrawingTools ==
    [][/\ (asset.type # "VIDEO" /\ drawingTool \in {"pen", "box"} /\ SpaceDown) =>
            drawingTool' # "hand"
       /\ (asset.type = "VIDEO" /\ (SpaceDown \/ SpaceRepeat)) =>
            /\ isVideoPlaying' = ~isVideoPlaying
            /\ UNCHANGED <<appVars, roomVars, toolVars, viewVars, layerVars, threadVars>>
       /\ (asset.type = "VIDEO" /\ SpaceUp) =>
            UNCHANGED <<appVars, roomVars, toolVars, viewVars, layerVars, threadVars,
                        isVideoPlaying>>]_vars

\* C14 witness: Space is held, it went down while the pen tool was active,
\* and the hand is the active tool with the pen remembered for the restore.
SpaceOverrideSparesDrawingToolsWitness ==
    /\ asset.type # "VIDEO"
    /\ spaceOverride.held /\ spaceOverride.clean
    /\ spaceOverride.before = "pen"
    /\ drawingTool = "hand"
    /\ previousToolRef = "pen"

\* C15: while the current user is an Observer no step adds a comment to any
\* version, and a mouseup that ends a point, pen or box press on the overlay
\* leaves the versions, the active comment and the tool exactly as they were.
ObserverCannotComment ==
    [][currentUser.role = "OBSERVER" =>
         /\ CommentIds(versions') \subseteq CommentIds(versions)
         /\ CommentCount(versions') <= CommentCount(versions)
         /\ (isDrawing /\ draggedCommentId = NoId /\ MouseUp) =>
              /\ versions' = versions
              /\ activeCommentId' = activeCommentId
              /\ drawingTool' = drawingTool]_vars

\* C15 witness: an Observer holds a pen stroke of two points over the
\* overlay, which a user who may comment would commit on release.
ObserverCannotCommentWitness ==
    /\ currentUser.role = "OBSERVER"
    /\ isDrawing /\ draggedCommentId = NoId
    /\ drawingTool = "pen" /\ Len(currentPath) = 2
    /\ HitTest(ptr) = "layer" /\ hover = "layer"

\* C16: for an Approver no reply flagged internal is among the replies
\* rendered in the sidebar card of any comment shown to them; for every other
\* role the replies rendered in each card are all the stored replies of that
\* comment.
InternalRepliesHidden ==
    /\ currentUser.role = "APPROVER" =>
         \A c \in sortedComments : \A r \in SeqToSet(renderedReplies(c)) : ~r.isInternal
    /\ currentUser.role # "APPROVER" =>
         \A c \in sortedComments :
            \E d \in StoredActiveComments : d.id = c.id /\ renderedReplies(c) = d.replies

\* C16 witness: a reply flagged internal is stored under a comment that is
\* itself public and unresolved.
InternalRepliesHiddenWitness ==
    \E c \in StoredActiveComments :
        /\ ~c.isInternal /\ ~c.resolved
        /\ \E r \in SeqToSet(c.replies) : r.isInternal

\* C17: while a box press is active the rectangle is the normalized one
\* between the anchor a recorded at pointer-down and the current pointer
\* point p: x = min(a.x, p.x), y = min(a.y, p.y), w = |p.x - a.x|,
\* h = |p.y - a.y|, with w and h not negative, whatever the drag direction.
BoxNormalization ==
    (isDrawing /\ drawingTool = "box" /\ currentStart # Null) =>
        LET a == currentStart
            p == getPoint(Layer, ptr)
        IN  /\ currentRect = Rect(RMin(a.x, p.x), RMin(a.y, p.y),
                                  RAbs(RSub(p.x, a.x)), RAbs(RSub(p.y, a.y)))
            /\ RLe(Num(0), currentRect.w) /\ RLe(Num(0), currentRect.h)

\* C17 witness: a box dragged backwards from (60, 60) to (20, 20) holds the
\* rectangle {x: 20, y: 20, w: 40, h: 40}.
BoxNormalizationWitness ==
    /\ isDrawing /\ drawingTool = "box"
    /\ currentStart = Pt(Num(60), Num(60))
    /\ getPoint(Layer, ptr) = Pt(Num(20), Num(20))
    /\ currentRect = Rect(Num(20), Num(20), Num(40), Num(40))

\* Deltas a translation is tried with (normalized units, both signs, zero, a
\* fraction, and shifts that leave the 0-100 range).
TranslateDeltas == {Num(-40), Num(-1), Num(0), Rat(1, 2), Num(10), Num(90)}

\* Anchors a comment is repositioned to.
RepositionTargets == {Pt(Num(0), Num(0)), Pt(Num(10), Num(10)), Pt(Num(20), Num(20)),
                      Pt(Rat(201, 2), Num(-5))}

\* C18: for every stored pen or box drawing D and every delta (dx, dy),
\* translating D by (dx, dy) and then by (-dx, -dy) gives D, and a non-zero
\* delta moves D; and for every comment of the active version, repositioning
\* it from its anchor A to any B and then from B back to A gives the stored
\* versions as they were (anchor and drawing restored).
RoundTripTranslate ==
    /\ \A c \in AllComments : \A dx, dy \in TranslateDeltas :
         c.drawing.type \in {"pen", "box"} =>
           /\ TranslateDrawing(TranslateDrawing(c.drawing, dx, dy),
                               RSub(Num(0), dx), RSub(Num(0), dy)) = c.drawing
           /\ (dx # Num(0) \/ dy # Num(0)) =>
                TranslateDrawing(c.drawing, dx, dy) # c.drawing
    /\ \A c \in StoredActiveComments : \A b \in RepositionTargets :
         handleUpdateCommentPosition(
            handleUpdateCommentPosition(versions, c.id, b.x, b.y), c.id, c.x, c.y)
           = versions

\* C18 witness: a pen stroke drawn from (10, 10) to (11, 10) has been dragged
\* by its pin to the anchor (20, 20), and its points have moved with it.
RoundTripTranslateWitness ==
    \E c \in AllComments :
        /\ c.drawing.type = "pen"
        /\ c.x = Num(20) /\ c.y = Num(20)
        /\ c.drawing.points = <<Pt(Num(20), Num(20)), Pt(Num(21), Num(20))>>

\* A mouseup on the overlay that ends a pin drag.
DragRelease ==
    /\ draggedCommentId # NoId /\ dragPosition # Null
    /\ hover = "layer" /\ HitTest(ptr) = "layer"
    /\ MouseUp

\* The drawing d2 is the drawing d1 shifted by (dx, dy): same type and
\* colour, every pen point shifted, the box corner shifted with w and h kept.
ShiftedBy(d1, d2, dx, dy) ==
    /\ d2.type = d1.type /\ d2.color = d1.color
    /\ Len(d2.points) = Len(d1.points)
    /\ \A k \in 1..Len(d1.points) :
         /\ d2.points[k].x = RAdd(d1.points[k].x, dx)
         /\ d2.points[k].y = RAdd(d1.points[k].y, dy)
    /\ IF d1.rect = Null THEN d2.rect = Null
       ELSE /\ d2.rect # Null
            /\ d2.rect.x = RAdd(d1.rect.x, dx) /\ d2.rect.y = RAdd(d1.rect.y, dy)
            /\ d2.rect.w = d1.rect.w /\ d2.rect.h = d1.rect.h

\* The offset between a comment's anchor and its drawing, as set at commit
\* (pen: the first point; box: the top-right corner) or by the mock data.
AnchorOffsetKept(c) ==
    IF c.id = "c1"
      THEN c.drawing.rect.x = RSub(c.x, Num(5)) /\ c.drawing.rect.y = RSub(c.y, Num(5))
    ELSE IF c.drawing.type = "pen"
      THEN c.drawing.points[1] = Pt(c.x, c.y)
    ELSE IF c.drawing.type = "box"
      THEN RAdd(c.drawing.rect.x, c.drawing.rect.w) = c.x /\ c.drawing.rect.y = c.y
    ELSE TRUE

\* C19: on drag-end the dragged comment's anchor is the last drag position,
\* with both coordinates in [0, 100]; its drawing is shifted by the delta of
\* the anchor; everything else of it (id, text, author, flags, replies) and
\* its place in the list are kept; every other comment and version is
\* unchanged; and in every state each drawing keeps its offset to the anchor.
DragEndMovesAnchorAndDrawing ==
    /\ [](\A c \in AllComments : AnchorOffsetKept(c))
    /\ [][DragRelease =>
           /\ Len(versions') = Len(versions)
           /\ \A i \in 1..Len(versions) :
                /\ versions'[i].id = versions[i].id
                /\ Len(versions'[i].comments) = Len(versions[i].comments)
                /\ \A j \in 1..Len(versions[i].comments) :
                     LET old == versions[i].comments[j]
                         new == versions'[i].comments[j]
                     IN  IF versions[i].id = activeVersionId /\ old.id = draggedCommentId
                           THEN /\ new.x = dragPosition.x /\ new.y = dragPosition.y
                                /\ RLe(Num(0), new.x) /\ RLe(new.x, Num(100))
                                /\ RLe(Num(0), new.y) /\ RLe(new.y, Num(100))
                                /\ ShiftedBy(old.drawing, new.drawing,
                                             RSub(new.x, old.x), RSub(new.y, old.y))
                                /\ [new EXCEPT !.x = old.x, !.y = old.y,
                                               !.drawing = old.drawing] = old
                           ELSE new = old]_vars

\* C19 witness: the mock comment c1 (anchor (45, 30), box at (40, 25) of
\* 10 by 10) has been dragged to the anchor (20, 20) and released; its box
\* stands at (15, 15) with the same extent.
DragEndMovesAnchorAndDrawingWitness ==
    \E c \in AllComments :
        /\ c.id = "c1"
        /\ c.x = Num(20) /\ c.y = Num(20)
        /\ c.drawing.rect = Rect(Num(15), Num(15), Num(10), Num(10))
        /\ draggedCommentId = NoId

\* C20: while a pin is dragged no step but the drag-end changes the stored
\* comments: the press on the pin and every pointer-move keep versions (and
\* the selection); a move on the overlay keeps the drag and sets a drag
\* position within [0, 100]; a move that leaves the overlay ends the drag
\* (no dragged comment, no drag position), and the release that follows an
\* abandoned drag stores nothing.
DragMovesAreEphemeral ==
    [][/\ (draggedCommentId = NoId /\ draggedCommentId' # NoId) => versions' = versions
       /\ (draggedCommentId # NoId /\ ~DragRelease) => versions' = versions
       /\ (draggedCommentId # NoId /\ ptr' # ptr) =>
            /\ activeCommentId' = activeCommentId
            /\ IF HitTest(ptr') = "layer"
                 THEN /\ draggedCommentId' = draggedCommentId
                      /\ dragPosition' # Null
                      /\ RLe(Num(0), dragPosition'.x) /\ RLe(dragPosition'.x, Num(100))
                      /\ RLe(Num(0), dragPosition'.y) /\ RLe(dragPosition'.y, Num(100))
                 ELSE draggedCommentId' = NoId /\ dragPosition' = Null
       /\ (draggedCommentId = NoId /\ ~isDrawing /\ MouseUp) => versions' = versions
      ]_vars

\* C20 witness: the mock comment c1 is being dragged, the pointer has moved
\* its drag position to (20, 20), and the stored c1 still has its anchor
\* (45, 30) and its box at (40, 25).
DragMovesAreEphemeralWitness ==
    /\ draggedCommentId = "c1"
    /\ dragPosition = Pt(Num(20), Num(20))
    /\ \E c \in AllComments :
         /\ c.id = "c1" /\ c.x = Num(45) /\ c.y = Num(30)
         /\ c.drawing.rect = Rect(Num(40), Num(25), Num(10), Num(10))

\* A mouseup that commits a pen stroke: the active version gains, at its
\* head, a comment with a pen drawing.
StrokeCommit ==
    /\ MouseUp
    /\ Len(activeVersion'.comments) = Len(activeVersion.comments) + 1
    /\ activeVersion'.comments[1].drawing.type = "pen"

\* C21: the points of a committed pen drawing are the points of the mouse
\* events of the committing gesture, the pointer-down point first and the
\* points of its pointer-moves after it in delivery order: nothing is left
\* out and nothing of an earlier gesture is kept.
PenPointsAreTheGesture ==
    [][StrokeCommit => activeVersion'.comments[1].drawing.points = pressLog]_vars

\* C21 witness: a stroke pressed at (10, 10) and drawn to (11, 10) with
\* the pen tool is stored with exactly these two points.
PenPointsAreTheGestureWitness ==
    \E c \in AllComments :
        /\ c.drawing.type = "pen"
        /\ c.drawing.points = <<Pt(Num(10), Num(10)), Pt(Num(11), Num(10))>>
        /\ c.x = Num(10) /\ c.y = Num(10)

\* A press-state or a pin drag of the overlay is active.
GestureActive == isDrawing \/ draggedCommentId # NoId

\* C22: the cached rectangle is non-null only while a press-state or a pin
\* drag is active; the step that starts a press-state or a drag caches the
\* content box's rectangle as it is at that pointer-down, and no step puts
\* any other rectangle into the cache; the step that ends the gesture
\* (mouseup, or the pointer leaving the overlay) clears the cache, so the
\* next gesture never converts with the rectangle of an earlier one.
CachedBoundsScopedToGesture ==
    /\ [](boundsRef # Null => GestureActive)
    /\ [][/\ (~GestureActive /\ GestureActive') => boundsRef' = ContainerRect(zoom, pan)
          /\ (GestureActive /\ ~GestureActive') => boundsRef' = Null
          /\ (boundsRef' # boundsRef /\ boundsRef' # Null) =>
               boundsRef' = ContainerRect(zoom, pan)]_vars

\* C22 witness: a press-state is active at a zoom other than 1 and the cache
\* holds the content box's rectangle at that zoom.
CachedBoundsScopedToGestureWitness ==
    /\ isDrawing
    /\ zoom # Num(1)
    /\ boundsRef = ContainerRect(zoom, pan)

\* C23: the window mousemove / mouseup listeners of the comparison view are
\* registered only while a divider drag is active.
WipeListenersOnlyWhileDragging == windowListeners => isDragging

\* C23 witness: a divider drag is active in wipe mode, the listeners are
\* registered and the divider has followed the pointer to 25%.
WipeListenersOnlyWhileDraggingWitness ==
    /\ isDragging /\ windowListeners
    /\ mode = "wipe"
    /\ wipePos = Num(25)

\* C24: activeCommentId is null or the id of a comment of the active
\* version's list that the current viewer is shown.
ActiveCommentIsListed ==
    activeCommentId = NoId \/ \E c \in SeqToSet(visibleComments) : c.id = activeCommentId

\* C24 witness: the mock comment c1 is selected while its version v2 is the
\* active one.
ActiveCommentIsListedWitness ==
    /\ activeCommentId = "c1"
    /\ activeVersionId = "v2"
    /\ \E c \in SeqToSet(visibleComments) : c.id = "c1"

\* C25: a successful approve by an Approver leaves no unresolved comment on
\* the newest version (the head of the versions list), whichever version is
\* the active one.
ApproveCoversNewestVersion ==
    [][(handleApprove /\ currentUser.role = "APPROVER") =>
          \A c \in SeqToSet(versions[1].comments) : c.resolved]_vars

\* C25 witness: an Approver has approved while viewing the newest version,
\* whose comment is resolved.
ApproveCoversNewestVersionWitness ==
    /\ currentAssetStatus = "APPROVED"
    /\ currentUser.role = "APPROVER"
    /\ asset.id = "a1"
    /\ activeVersionId = versions[1].id
    /\ versions[1].comments # <<>>
    /\ \A c \in SeqToSet(versions[1].comments) : c.resolved

\* C26: while the current user is an Observer no step changes the versions
\* (their comments, replies and drawings) or the asset status.
ObserverIsReadOnly ==
    [][(currentUser.role = "OBSERVER" /\ currentUser' = currentUser) =>
          UNCHANGED <<versions, currentAssetStatus>>]_vars

\* C26 witness: an Observer has selected the mock comment c1 and pressed on
\* the overlay, and the versions are those the asset was opened with.
ObserverIsReadOnlyWitness ==
    /\ currentUser.role = "OBSERVER"
    /\ activeCommentId = "c1"
    /\ isDrawing
    /\ versions = asset.versions

\* The ids of the comments and replies stored with isInternal = true.
InternalItems(vs) ==
    LET cs == UNION {SeqToSet(vs[i].comments) : i \in 1..Len(vs)}
    IN  {c.id : c \in {x \in cs : x.isInternal}}
          \cup UNION {{r.id : r \in {y \in SeqToSet(c.replies) : y.isInternal}} : c \in cs}

\* C27: a submission by an Approver (a reply, or the first text of a
\* comment) stores nothing with isInternal = true.
ApproverStoresNothingInternal ==
    [][(currentUser.role = "APPROVER"
          /\ \E c \in AllComments, t \in ReplyTexts : handleSendReply(c, t)) =>
          InternalItems(versions') \subseteq InternalItems(versions)]_vars

\* C27 witness: a reply written by the Approver u2 in this session is stored
\* with isInternal = false.
ApproverStoresNothingInternalWitness ==
    \E c \in AllComments : \E r \in SeqToSet(c.replies) :
        r.userId = "u2" /\ r.id # "c1_r1" /\ ~r.isInternal

\* C28: while a press-state or a pin drag is active zoom and pan do not
\* change, and a cached rectangle is the content box's current rectangle.
ViewportFixedDuringGesture ==
    /\ [](boundsRef # Null => boundsRef = ContainerRect(zoom, pan))
    /\ [][(GestureActive /\ GestureActive') => UNCHANGED <<zoom, pan>>]_vars

\* C28 witness: a pin is being dragged at a zoom other than 1, the pointer
\* has moved the drag position, and the cached rectangle is the current one.
ViewportFixedDuringGestureWitness ==
    /\ draggedCommentId # NoId
    /\ zoom # Num(1)
    /\ boundsRef = ContainerRect(zoom, pan)
    /\ \E c \in AllComments :
         c.id = draggedCommentId /\ dragPosition # Pt(OrZero(c.x), OrZero(c.y))

\* C29: the active tool, and the tool remembered for the Space restore, is
\* always the pointer, the hand or the pen, and no comment stored in the
\* session carries a box drawing (the mock comment c1 came with the data).
ToolIsNeverBox ==
    /\ drawingTool \in {"pointer", "hand", "pen"}
    /\ previousToolRef \in {"pointer", "hand", "pen"}
    /\ \A c \in AllComments : c.drawing.type = "box" => c.id = "c1"

\* C29 witness: a comment has been committed in the session, the pen is the
\* active tool, and a Space hold made with the pen has left it remembered.
ToolIsNeverBoxWitness ==
    /\ drawingTool = "pen"
    /\ previousToolRef = "pen"
    /\ ~spaceOverride.held
    /\ \E c \in AllComments : c.id # "c1"

\* C30: once every suggest-reply request for a comment has resolved, the
\* reply draft of that comment is the result of the most recently issued
\* request or the text the user's later edit or send left in it.
SuggestionDraftIsLatest ==
    \A id \in DOMAIN suggestLog :
        InFlight(id) = {} =>
            DraftOf(id) \in suggestLog[id].result \cup suggestLog[id].userLater

\* C30 witness: two suggestions were requested for one comment, both have
\* resolved, the user wrote nothing since, and the draft is the result of the
\* second request.
SuggestionDraftIsLatestWitness ==
    \E id \in DOMAIN suggestLog :
        /\ suggestLog[id].issued = 2
        /\ InFlight(id) = {}
        /\ suggestLog[id].userLater = {}
        /\ suggestLog[id].result = {"s2"}
        /\ DraftOf(id) = "s2"

====
